---- MODULE Spec2Model ----
(***************************************************************************)
(* A model of platform.js (src/platform.js): the parse operation that      *)
(* turns an identification string, or a context object of capability       *)
(* hints, into a platform record.                                          *)
(*                                                                         *)
(* Strings are TLA+ strings.  An identification string is a sequence of    *)
(* fragments (tokens) taken from Vocabulary; its text is the fragments     *)
(* joined by "; ".  A regular expression that the code tests against the   *)
(* identification string is evaluated on the fragments' text with the      *)
(* matching operators below.  JavaScript null, undefined and false are the *)
(* strings NULL, UNDEFINED and FALSEV.                                     *)
(***************************************************************************)
EXTENDS Integers, Sequences, FiniteSets, TLC

(* ambient  the context the module was loaded in (root)                    *)
(* input    what platform.parse is given                                   *)
(* stack    the parse invocations in progress, the innermost last          *)
(* outcome  how the last top-level invocation ended, and its platform      *)
(* calls    how many top-level invocations were started with this input    *)
(* prev     the outcome of the invocation before the last                  *)
VARIABLES ambient, input, stack, outcome, calls, prev

vars == <<ambient, input, stack, outcome, calls, prev>>

NULL == "<null>"
UNDEFINED == "<undefined>"
FALSEV == "<false>"

(* JavaScript truthiness of a string-or-null value. *)
Truthy(x) == x \notin {NULL, UNDEFINED, FALSEV, ""}

(* String(x): how a value reads when a RegExp is tested against it. *)
Str(x) == IF x = NULL THEN "null" ELSE IF x = UNDEFINED THEN "undefined"
          ELSE IF x = FALSEV THEN "false" ELSE x

(* ---------------------------------------------------------------------- *)
(* Characters and substrings                                               *)
(* ---------------------------------------------------------------------- *)

(* The smallest and the greatest member of a set of numbers, 0 when it is  *)
(* empty.                                                                  *)
Least(set) == IF set = {} THEN 0 ELSE CHOOSE i \in set : \A j \in set : i <= j
Greatest(set) == IF set = {} THEN 0 ELSE CHOOSE i \in set : \A j \in set : i >= j

(* The i-th character of s, "" outside the string. *)
Ch(s, i) == IF i >= 1 /\ i <= Len(s) THEN SubSeq(s, i, i) ELSE ""

(* s.slice(i - 1): the part of s from position i (1-based) on. *)
From(s, i) == IF i > Len(s) THEN "" ELSE SubSeq(s, IF i < 1 THEN 1 ELSE i, Len(s))

(* The first n characters of s. *)
Upto(s, n) == IF n <= 0 THEN "" ELSE SubSeq(s, 1, IF n > Len(s) THEN Len(s) ELSE n)

(* The character classes \d, [A-Z], [a-z], [a-z] with the flag i, \w and   *)
(* [\d.].                                                                  *)
Chars(s) == {SubSeq(s, i, i) : i \in 1..Len(s)}
Digits == Chars("0123456789")
UpperLetters == Chars("ABCDEFGHIJKLMNOPQRSTUVWXYZ")
LowerLetters == Chars("abcdefghijklmnopqrstuvwxyz")
Letters == Chars("ABCDEFGHIJKLMNOPQRSTUVWXYZabcdefghijklmnopqrstuvwxyz")
WordChars == Chars("ABCDEFGHIJKLMNOPQRSTUVWXYZabcdefghijklmnopqrstuvwxyz0123456789_")
DigitDot == Chars("0123456789.")

(* toLowerCase of one character. *)
ToLower ==
  [c \in UpperLetters |->
     Ch("abcdefghijklmnopqrstuvwxyz",
        Least({i \in 1..26 : Ch("ABCDEFGHIJKLMNOPQRSTUVWXYZ", i) = c}))]
LowerCh(c) == IF c \in UpperLetters THEN ToLower[c] ELSE c

(* s.toLowerCase(); a RegExp with the flag i is matched in lower case. *)
RECURSIVE Lower(_)
Lower(s) ==
  IF s = "" THEN ""
  ELSE IF Len(s) = 1 THEN LowerCh(s)
  ELSE Lower(SubSeq(s, 1, Len(s) \div 2)) \o Lower(SubSeq(s, Len(s) \div 2 + 1, Len(s)))

(* p occurs in s at position i. *)
At(s, i, p) == i >= 1 /\ i + Len(p) - 1 <= Len(s) /\ SubSeq(s, i, i + Len(p) - 1) = p

(* s.indexOf(p) + 1: the first position of p in s, 0 when there is none. *)
IndexOf(s, p) == Least({i \in 1..(Len(s) - Len(p) + 1) : At(s, i, p)})

Contains(s, p) == \E i \in 1..(Len(s) - Len(p) + 1) : At(s, i, p)
StartsWith(s, p) == At(s, 1, p)
EndsNever(s, p) == FALSE
EndsWith(s, p) == Len(s) >= Len(p) /\ At(s, Len(s) - Len(p) + 1, p)

(* \b between positions i - 1 and i of s. *)
Boundary(s, i) == (Ch(s, i - 1) \in WordChars) # (Ch(s, i) \in WordChars)

(* /\bp/ and /\bp\b/ at position i. *)
WordStartAt(s, i, p) == At(s, i, p) /\ Boundary(s, i)
WordAt(s, i, p) == At(s, i, p) /\ Boundary(s, i) /\ Boundary(s, i + Len(p))

(* /\bp\b/.test(s) and /\bp/.test(s). *)
HasWord(s, p) == \E i \in 1..Len(s) : WordAt(s, i, p)
HasWordStart(s, p) == \E i \in 1..Len(s) : WordStartAt(s, i, p)

(* The longest run of characters of class cls in s starting at position i. *)
RunLen(s, i, cls) ==
  IF i < 1 \/ i > Len(s) THEN 0
  ELSE Least({j \in i..(Len(s) + 1) : Ch(s, j) \notin cls}) - i

Run(s, i, cls) == SubSeq(s, i, i + RunLen(s, i, cls) - 1)

(* The longest run of characters NOT in cls, starting at position i. *)
RunLenNot(s, i, cls) ==
  IF i > Len(s) THEN 0
  ELSE Least({j \in i..(Len(s) + 1) : j > Len(s) \/ Ch(s, j) \in cls}) - i

(* The longest suffix of s made of characters of cls: /[cls]+$/.exec(s). *)
TrailLen(s, cls) ==
  Len(s) - Greatest({j \in 0..Len(s) : j = 0 \/ Ch(s, j) \notin cls})

RECURSIVE Join(_, _)
Join(parts, sep) == IF parts = <<>> THEN ""
                    ELSE IF Len(parts) = 1 THEN parts[1]
                    ELSE parts[1] \o sep \o Join(Tail(parts), sep)

(* s with the n characters at position i replaced by r; s itself when i    *)
(* is 0, the position of a match that was not found.                       *)
Splice(s, i, n, r) == IF i = 0 THEN s ELSE Upto(s, i - 1) \o r \o From(s, i + n)

(* s up to the character before position i; all of s when i is 0. *)
Before(s, i) == IF i = 0 THEN s ELSE Upto(s, i - 1)

(* s.replace(p, r) for a literal p: the first occurrence only. *)
ReplaceFirst(s, p, r) == Splice(s, IndexOf(s, p), Len(p), r)

(* s.replace(/\bp\b/, r). *)
ReplaceWord(s, p, r) == Splice(s, Least({i \in 1..Len(s) : WordAt(s, i, p)}), Len(p), r)

(* A length that continues a match: -1, no match, when the rest fails. *)
Plus(n, rest) == IF rest < 0 THEN -1 ELSE n + rest

(* trim: /^ +| +$/g removed. *)
RECURSIVE trim(_)
trim(s) == IF s = "" THEN ""
           ELSE IF Ch(s, 1) = " " THEN trim(From(s, 2))
           ELSE IF Ch(s, Len(s)) = " " THEN trim(Upto(s, Len(s) - 1))
           ELSE s

capitalize(s) ==
  LET upper(c) == IF c \in LowerLetters THEN CHOOSE u \in UpperLetters : ToLower[u] = c ELSE c
  IN  IF s = "" THEN "" ELSE upper(Ch(s, 1)) \o From(s, 2)

(* format: trim, and capitalize unless the string starts with webOS, iOS or iP. *)
format(s) ==
  LET formatted(t) ==
        IF StartsWith(t, "webOS") \/ StartsWith(t, "iOS") \/ StartsWith(t, "iP")
        THEN t ELSE capitalize(t)
  IN  formatted(trim(s))

(* qualify makes the hyphens and spaces of a label optional.  A qualified   *)
(* label p matches s at position i when s reads p there with any of p's     *)
(* inner spaces and hyphens left out; QLen is the length of the match,      *)
(* -1 when there is none.  Matching is greedy, as the RegExp's ? is.  The   *)
(* characters of p before its first space or hyphen are matched at once.    *)
RECURSIVE QLen(_, _, _)
QLen(s, i, p) ==
  LET pick(taken, skipped) == IF taken >= 0 THEN 1 + taken ELSE skipped
      word(n) ==
        IF At(s, i, Upto(p, n)) THEN Plus(n, QLen(s, i + n, From(p, n + 1))) ELSE -1
      literal(mark) == IF mark = 0 THEN Len(p) ELSE mark - 1
  IN  IF p = "" THEN 0
      ELSE IF Ch(p, 1) \notin {" ", "-"}
      THEN word(literal(Least({j \in 1..Len(p) : Ch(p, j) \in {" ", "-"}})))
      ELSE pick(IF Ch(s, i) = Ch(p, 1) /\ i <= Len(s) THEN QLen(s, i + 1, From(p, 2)) ELSE -1,
                IF Len(p) > 1 THEN QLen(s, i, From(p, 2)) ELSE -1)

(* ---------------------------------------------------------------------- *)
(* Identification strings                                                  *)
(* ---------------------------------------------------------------------- *)

(* Fragments an identification string is built from. *)
Vocabulary ==
  {"MSIE 9.0", "like iPhone OS", "BB10", "Opera/9.80", "Firefox/3.0", "Linux",
   "Windows NT 6.1", "Win64; x64", "WOW64", "AppleWebKit/537.36", "Chrome/70.0",
   "Safari/537.36", "Version/5.0", "iPhone", "Mobile", "xyz"}

(* The longest identification string, in fragments, that is enumerated. *)
MaxUaLen == 1

(* Longer identification strings that are parsed as well. *)
SampleUAs ==
  {<<"MSIE 9.0", "like iPhone OS", "BB10">>,
   <<"MSIE 9.0", "like iPhone OS", "Linux">>,
   <<"Windows NT 6.1", "WOW64", "Opera/9.80", "MSIE 9.0">>,
   <<"Windows NT 6.1", "Win64; x64", "AppleWebKit/537.36", "Chrome/70.0", "Safari/537.36">>,
   <<"iPhone", "Opera/9.80", "MSIE 9.0">>,
   <<"Safari/537.36", "Chrome/70.0">>,
   <<"Chrome/70.0", "Safari/537.36">>,
   <<"Windows NT 6.1", "Linux">>,
   <<"Firefox/3.0", "MSIE 9.0">>,
   <<"iPhone", "Mobile">>,
   <<"AppleWebKit/537.36", "Version/5.0">>,
   <<"Linux", "Version/5.0", "xyz">>,
   <<"Windows NT 6.1", "Firefox/7-x">>,
   <<"Windows NT 6.0", "WOW64">>,
   <<"Windows NT 5.2", "Win64; x64">>,
   <<"Opera/9.80", "MSIE 9.0", "Mobile">>,
   <<"Opera/9.80", "MSIE 9.0", "Firefox/3.0">>,
   <<"Android 11", "ASUS_I005D">>,
   <<"Android 11", "LM-V600">>,
   <<"Linux", "Android 11", "CPH2211", "AppleWebKit/537.36", "Chrome/70.0", "Mobile">>,
   <<"Windows NT 10.0", "Win64; x64", "AppleWebKit/537.36", "Chrome/70.0", "Safari/537.36">>,
   <<"Windows NT 10.0", "Win64; x64", "AppleWebKit/537.36", "Chrome/70.0">>,
   <<"Windows NT 10.0", "WOW64", "AppleWebKit/537.36", "Chrome/27.0", "Safari/537.36">>,
   <<"ASUS_I005DA">>, <<"motorola edge 20">>, <<"motorola edge 20 pro">>,
   <<"Android 11", "motorola edge 20 pro">>, <<"GT-I9000">>, <<"Iron">>, <<"KHTML">>,
   <<"WPDesktop">>, <<"MSIE 9.0", "WPDesktop">>,
   <<"Windows NT 6.2", "Trident/7.0", "rv:11.0", "WPDesktop">>,
   <<"WOW64", "Opera/9.80", "MSIE 9.0", "AppleWebKit/537.36">>,
   <<"AppleWebKit/532.5">>,
   <<"Firefox/4.0b2">>, <<"Firefox/4.0b2+">>, <<"Firefox/4.0a1pre">>, <<"Firefox/3.0beta2">>,
   <<"Firefox/3.0", "beta 2">>, <<"Firefox/3.0", "Minefield">>,
   <<"Linux x86_64">>, <<"Win64; x64", "Linux x86_64">>, <<"Linux i686", "x64">>,
   <<"Maxthon/3.0", "Mobile">>, <<"Maxthon", "Mobile">>, <<"MSIE 9.0", "Xbox", "Mobile">>,
   <<"Iron", "Chrome/70.0">>, <<"Iron", "Chromium/60.0">>,
   <<"Iron", "Chromium/60.0", "Chrome/70.0">>,
   <<"BB10", "Version/10.0b1">>, <<"Version/5.0b1">>,
   <<"AppleWebKit/534.3+", "Safari/534.3">>}

(* navigator.userAgent of a context, by the name of the agent hint. *)
AgentUA ==
  "absent" :> <<>> @@
  "ie9" :> <<"MSIE 9.0">> @@
  "ie7" :> <<"MSIE 7.0", "Trident/5.0">> @@
  "chrome" :> <<"AppleWebKit/537.36", "Chrome/70.0">> @@
  "opera" :> <<"Opera/9.80">> @@
  "webkit" :> <<"AppleWebKit/534.3">> @@
  "wp8" :> <<"MSIE 7.0", "Trident/5.0", "WPDesktop">>

(* reOpera = /\bOpera/ (line 42). *)
reOperaAt(s, i) == WordStartAt(s, i, "Opera")
reOperaTest(s) == \E i \in 1..Len(s) : reOperaAt(s, i)

StripNothing(t) == t

(* t.replace(reOpera, '') and t.replace(/like iPhone OS/, ''). *)
StripOpera(t) == Splice(t, Least({i \in 1..Len(t) : reOperaAt(t, i)}), 5, "")
StripLikeIPhone(t) == ReplaceFirst(t, "like iPhone OS", "")

(* Every fragment a parse invocation can see: those of the vocabulary, of   *)
(* the longer strings and of navigator.userAgent; a nested parse is given  *)
(* the caller's string with one marker removed.                            *)
Tokens ==
  LET of(uas) == UNION {{ua[i] : i \in DOMAIN ua} : ua \in uas}
      agents == of({AgentUA[a] : a \in DOMAIN AgentUA})
      without(set, strip(_)) == set \cup {strip(t) : t \in set}
  IN  without(without(without(Vocabulary \cup of(SampleUAs) \cup agents, StripLikeIPhone),
                      StripOpera),
              StripLikeIPhone)

(* The text of an identification string: its fragments joined by "; ",     *)
(* followed by the semicolons that nested parses have appended.            *)
Text(ua, tail) == Join(ua, "; ") \o tail

(* RegExps without captures tested against the identification string: some *)
(* fragment matches.  /\bp\b/, /\bp\b/i, /\bp/i, /p/ and /p/i.              *)
Word(ua, p) == \E i \in DOMAIN ua : HasWord(ua[i], p)
WordCI(ua, p) == \E i \in DOMAIN ua : HasWord(Lower(ua[i]), Lower(p))
WordStartCI(ua, p) == \E i \in DOMAIN ua : HasWordStart(Lower(ua[i]), Lower(p))
HasNever(ua, p) == FALSE
Has(ua, p) == \E i \in DOMAIN ua : Contains(ua[i], p)
HasCI(ua, p) == \E i \in DOMAIN ua : Contains(Lower(ua[i]), Lower(p))

(* ---------------------------------------------------------------------- *)
(* Pattern tables (lines 340-1322)                                         *)
(* ---------------------------------------------------------------------- *)

(* A table entry written as a bare string: the label is the pattern, with  *)
(* hyphens and spaces made optional by qualify.                            *)
S(l) == [label |-> l, alts |-> <<l>>, q |-> TRUE]
(* A table entry {label, pattern}; the pattern is a list of alternatives. *)
P(l, a) == [label |-> l, alts |-> a, q |-> FALSE]

LayoutTable ==
  <<P("EdgeHTML", <<"Edge">>), S("Trident"), P("WebKit", <<"AppleWebKit">>), S("iCab"),
    S("Presto"), S("NetFront"), S("Tasman"), S("KHTML"), S("Gecko")>>

NameTable ==
  <<S("Adobe AIR"), S("Arora"), S("Avant Browser"), S("Breach"), S("Camino"),
    S("Electron"), S("Epiphany"), S("Fennec"), S("Flock"), S("Galeon"),
    S("GreenBrowser"), S("iCab"), S("Iceweasel"), S("K-Meleon"), S("Konqueror"),
    S("Lunascape"), S("Maxthon"),
    P("Microsoft Edge", <<"Edge", "Edg", "EdgA", "EdgiOS">>),
    S("Midori"), S("Nook Browser"), S("PaleMoon"), S("PhantomJS"), S("Raven"),
    S("Rekonq"), S("RockMelt"), P("Samsung Internet", <<"SamsungBrowser">>),
    S("SeaMonkey"), P("Silk", <<"Cloud9", "Silk-Accelerated">>), S("Sleipnir"),
    S("SlimBrowser"), P("SRWare Iron", <<"Iron">>), S("Sunrise"), S("Swiftfox"),
    S("Vivaldi"), S("Waterfox"), S("WebPositive"),
    P("Yandex Browser", <<"YaBrowser">>), P("UC Browser", <<"UCBrowser">>),
    S("Opera Mini"), P("Opera Mini", <<"OPiOS">>), S("Opera"), P("Opera", <<"OPR">>),
    S("Chromium"), S("Chrome"), P("Chrome", <<"HeadlessChrome">>),
    P("Chrome Mobile", <<"CriOS", "CrMo">>), P("Firefox", <<"Firefox", "Minefield">>),
    P("Firefox for iOS", <<"FxiOS">>), P("IE", <<"IEMobile">>), P("IE", <<"MSIE">>),
    S("Safari")>>

(* The product table: its first entries, some of its model codes, and its  *)
(* named products (lines 409-844).                                         *)
ProductTable ==
  <<P("BlackBerry", <<"BB10">>), S("BlackBerry"),
    P("Galaxy S", <<"GT-I9000">>), P("Galaxy S5", <<"SM-G900">>),
    P("Asus ROG Phone 5", <<"ASUS_I005D">>), P("Asus ROG Phone 5", <<"ASUS_I005DA">>),
    P("LG V60 ThinQ 5G", <<"LM-V600">>), P("Motorola Edge", <<"motorola edge">>),
    P("Motorola Edge 20", <<"motorola edge 20">>),
    P("Motorola Edge 20 Pro", <<"motorola edge 20 pro">>), P("Oppo A94 5G", <<"CPH2211">>),
    S("Google TV"), S("Lumia"), S("iPad"), S("iPod"), S("iPhone"), S("Kindle"),
    P("Kindle Fire", <<"Cloud9", "Silk-Accelerated">>), S("Nexus"), S("Nook"),
    S("PlayBook"), S("PlayStation Vita"), S("PlayStation"), S("TouchPad"),
    S("Transformer"), P("Wii U", <<"WiiU">>), S("Wii"), S("Xbox One"),
    P("Xbox 360", <<"Xbox">>), S("Xoom")>>

(* The table of manufacturers by model code (lines 846-1252): the entries   *)
(* of the model codes above.                                               *)
ModelCodeTable ==
  <<P("Asus", <<"ASUS_I005D">>), P("Asus", <<"ASUS_I005DA">>), P("LG", <<"LM-V600">>),
    P("Motorola", <<"motorola edge">>), P("Motorola", <<"motorola edge 20">>),
    P("Motorola", <<"motorola edge 20 pro">>), P("Oppo", <<"CPH2211">>)>>

(* The manufacturer table: key and the products listed under it (lines 1255-1277). *)
M(k, ps) == [key |-> k, products |-> ps]

ManufacturerTable ==
  <<M("Apple", {"iPad", "iPhone", "iPod"}), M("Alcatel", {}), M("Archos", {}),
    M("Amazon", {"Kindle", "Kindle Fire"}), M("Asus", {"Transformer"}),
    M("Barnes & Noble", {"Nook"}), M("BlackBerry", {"PlayBook"}),
    M("Google", {"Google TV", "Nexus", "Pixel"}), M("HP", {"TouchPad"}), M("HTC", {}),
    M("Huawei", {}), M("Lenovo", {}), M("LG", {}), M("Microsoft", {"Xbox", "Xbox One"}),
    M("Motorola", {"Xoom"}), M("Nintendo", {"Wii U", "Wii"}), M("Nokia", {"Lumia"}),
    M("Oppo", {}), M("Samsung", {"Galaxy S", "Galaxy S2", "Galaxy S3", "Galaxy S4"}),
    M("Sony", {"PlayStation", "PlayStation Vita"}), M("Xiaomi", {"Mi", "Redmi"})>>

OSTable ==
  <<S("Windows Phone"), S("KaiOS"), S("Android"), S("CentOS"), P("Chrome OS", <<"CrOS">>),
    S("Debian"), P("DragonFly BSD", <<"DragonFly">>), S("Fedora"), S("FreeBSD"),
    S("Gentoo"), S("Haiku"), S("Kubuntu"), S("Linux Mint"), S("OpenBSD"), S("Red Hat"),
    S("SuSE"), S("Ubuntu"), S("Xubuntu"), S("Cygwin"), S("Symbian OS"), S("hpwOS"),
    S("webOS "), S("webOS"), S("Tablet OS"), S("Tizen"), S("Linux"), S("Mac OS X"),
    S("Macintosh"), S("Mac"), S("Windows 98;"), S("Windows ")>>


(* ---------------------------------------------------------------------- *)
(* Matching a table entry (guess.pattern || qualify(guess), flag i)        *)
(* ---------------------------------------------------------------------- *)

(* The operators below take ls, a string already in lower case.            *)
(* Length of the match of one alternative at position i of ls, -1 if none. *)
AltLen(ls, i, e, a) ==
  IF e.q THEN QLen(ls, i, Lower(a))
  ELSE IF At(ls, i, Lower(a)) THEN Len(a) ELSE -1

(* RegExp(pattern, 'i') at position i of ls: the length matched by the     *)
(* first alternative that matches there; -1 if none.                       *)
RawLen(ls, i, e) ==
  LET ofAlt(k) == IF k = 0 THEN -1 ELSE AltLen(ls, i, e, e.alts[k])
  IN  ofAlt(Least({k \in DOMAIN e.alts : AltLen(ls, i, e, e.alts[k]) >= 0}))

(* Length of the match of /\b pattern/i at position i; -1 if none. *)
PatLen(ls, i, e) == IF Boundary(ls, i) THEN RawLen(ls, i, e) ELSE -1

(* The first position where /\b pattern/i matches, 0 if none. *)
PatIndex(ls, e) == Least({i \in 1..Len(ls) : PatLen(ls, i, e) >= 0})

(* The first position where RegExp(pattern, 'i') matches, 0 if none. *)
RawIndex(ls, e) == Least({i \in 1..Len(ls) : RawLen(ls, i, e) >= 0})

(* s.replace(RegExp(pattern, 'i'), label). *)
ReplacePattern(s, e, label) ==
  LET at(ls, i) == Splice(s, i, RawLen(ls, i, e), label)
      in(ls) == at(ls, RawIndex(ls, e))
  IN  in(Lower(s))

(* For every fragment, the table entries whose pattern matches in it:     *)
(* /\b pattern \b/i (some alternative ends at a word boundary) and        *)
(* /\b pattern/i.                                                         *)
WordHits(table) ==
  LET ends(ls, i, n) == n >= 0 /\ Boundary(ls, i + n)
      has(ls, e) ==
        \E i \in 1..Len(ls) :
          Boundary(ls, i) /\ \E k \in DOMAIN e.alts : ends(ls, i, AltLen(ls, i, e, e.alts[k]))
  IN  [t \in Tokens |-> {k \in DOMAIN table : has(Lower(t), table[k])}]
StartHits(table) ==
  [t \in Tokens |-> {k \in DOMAIN table : PatIndex(Lower(t), table[k]) > 0}]

LayoutHits == WordHits(LayoutTable)
NameHits == WordHits(NameTable)
ProductHits == StartHits(ProductTable)
ModelCodeHits == StartHits(ModelCodeTable)
OSHits == StartHits(OSTable)

(* A callback that lets a later entry replace the result. *)
KeepLast(result, found) == IF found # 0 THEN found ELSE result

(* The callbacks of the five matchers keep the first truthy result:        *)
(* return result || (RegExp(...).exec(ua) && label).  A result is the      *)
(* position of an entry in its table, 0 standing for null.                 *)
Keep(result, found) == IF result # 0 THEN result ELSE found

(* reduce (lines 224-230): the callback is applied to the accumulator and  *)
(* to each entry in turn, from the first to the n-th; matching is the set  *)
(* of entries whose test succeeds.  The entries k..n are taken as two      *)
(* halves: the result of the first half, a position or 0, is the           *)
(* accumulator of the second.                                              *)
RECURSIVE reduceFrom(_, _, _, _)
reduceFrom(accumulator, k, n, matching) ==
  LET onward(result) ==
        IF result \in 0..n THEN reduceFrom(result, (k + n) \div 2 + 1, n, matching)
        ELSE result
  IN  IF k > n THEN accumulator
      ELSE IF k = n THEN Keep(accumulator, IF k \in matching THEN k ELSE 0)
      ELSE onward(reduceFrom(accumulator, k, (k + n) \div 2, matching))

reduce(n, matching) == reduceFrom(0, 1, n, matching)

(* The entries of a table that some fragment of ua matches. *)
Matching(ua, hits) == UNION {hits[ua[i]] : i \in DOMAIN ua}

(* The entry a matcher resolves to, 0 when no entry matches. *)
FirstGuess(ua, hits, n) == reduce(n, Matching(ua, hits))

(* The label of entry k of a table, null for no entry. *)
LabelOf(table, k) == IF k = 0 THEN NULL ELSE table[k].label

(* getLayout (lines 1323-1329) and getName (lines 1356-1362). *)
Guess(ua, hits, table) == LabelOf(table, FirstGuess(ua, hits, Len(table)))
getLayout(ua) == Guess(ua, LayoutHits, LayoutTable)
getName(ua) == Guess(ua, NameHits, NameTable)

(* ---------------------------------------------------------------------- *)
(* cleanupOS (lines 78-125)                                                *)
(* ---------------------------------------------------------------------- *)

(* The Windows platform tokens (lines 82-95). *)
WindowsNames ==
  "10.0" :> "10" @@ "6.4" :> "10 Technical Preview" @@ "6.3" :> "8.1" @@ "6.2" :> "8" @@
  "6.1" :> "Server 2008 R2 / 7" @@ "6.0" :> "Server 2008 / Vista" @@
  "5.2" :> "Server 2003 / XP 64-bit" @@ "5.1" :> "XP" @@ "5.01" :> "2000 SP1" @@
  "5.0" :> "2000" @@ "4.0" :> "NT" @@ "4.90" :> "ME"

(* The platform token left as it was matched. *)
WindowsNameLater(os) == os

(* if (pattern && label && /^Win/i.test(os) && !/^Windows Phone /i.test(os) *)
(* && (data = data[/[\d.]+$/.exec(os)])) os = 'Windows ' + data             *)
WindowsName(os) ==
  LET named(los, key) ==
        IF StartsWith(los, "win") /\ ~StartsWith(los, "windows phone ") /\
           key \in DOMAIN WindowsNames
        THEN "Windows " \o WindowsNames[key] ELSE os
  IN  named(Lower(os), From(os, Len(os) - TrailLen(os, DigitDot) + 1))

(* .replace(/\bx86\.64\b/gi, 'x86_64') *)
RECURSIVE FixX8664(_)
FixX8664(s) ==
  LET at(i) == IF i = 0 THEN s ELSE Upto(s, i - 1) \o "x86_64" \o FixX8664(From(s, i + 6))
      in(ls) == at(Least({i \in 1..Len(s) : WordAt(ls, i, "x86.64")}))
  IN  in(Lower(s))

(* s.replace(/c/g, r) for a single character c. *)
RECURSIVE ReplaceAllCh(_, _, _)
ReplaceAllCh(s, c, r) ==
  IF s = "" THEN ""
  ELSE IF Len(s) = 1 THEN (IF s = c THEN r ELSE s)
  ELSE ReplaceAllCh(SubSeq(s, 1, Len(s) \div 2), c, r) \o
       ReplaceAllCh(SubSeq(s, Len(s) \div 2 + 1, Len(s)), c, r)

(* cleanupOS(os, pattern, label) as getOS calls it: pattern and label      *)
(* given.  The replacements of lines 98-124, in order:                     *)
(*   .replace(RegExp(pattern, 'i'), label)                                 *)
(*   .replace(/ ce$/i, ' CE')                                              *)
(*   .replace(/\bhpw/i, 'web')                                             *)
(*   .replace(/\bMacintosh\b/, 'Mac OS')                                   *)
(*   .replace(/_PowerPC\b/i, ' OS')                                        *)
(*   .replace(/\b(OS X) [^ \d]+/i, '$1')                                   *)
(*   .replace(/\bMac (OS X)\b/, '$1')                                      *)
(*   .replace(/\/(\d)/, ' $1')                                             *)
(*   .replace(/_/g, '.')                                                   *)
(*   .replace(/(?: BePC|[ .]*fc[ \d.]+)$/i, '')                            *)
(*   .replace(/\bx86\.64\b/gi, 'x86_64')                                   *)
(*   .replace(/\b(Windows Phone) OS\b/, '$1')                              *)
(*   .replace(/\b(Chrome OS \w+) [\d.]+\b/, '$1')                          *)
(*   .split(' on ')[0]                                                     *)
(* and format.  Each is applied to the result of the one before; none of   *)
(* them makes anything of the empty string.                                *)
cleanupOS(os, e) ==
  LET ce(s) == IF EndsWith(Lower(s), " ce") THEN Upto(s, Len(s) - 3) \o " CE" ELSE s
      hpwIn(s, ls) == Splice(s, Least({i \in 1..Len(s) : WordStartAt(ls, i, "hpw")}), 3, "web")
      hpw(s) == hpwIn(s, Lower(s))
      powerPCIn(s, ls) ==
        Splice(s, Least({i \in 1..Len(s) : At(ls, i, "_powerpc") /\ Boundary(ls, i + 8)}),
               8, " OS")
      powerPC(s) == powerPCIn(s, Lower(s))
      osxName(s, i) == RunLenNot(s, i + 5, {" "} \cup Digits)
      osxAt(s, i) == Splice(s, i, 5 + osxName(s, i), Upto(From(s, i), 4))
      osxIn(s, ls) ==
        osxAt(s, Least({i \in 1..Len(s) : WordStartAt(ls, i, "os x ") /\ osxName(s, i) >= 1}))
      osx(s) == osxIn(s, Lower(s))
      slashDigit(s) ==
        Splice(s, Least({i \in 1..Len(s) : Ch(s, i) = "/" /\ Ch(s, i + 1) \in Digits}), 1, " ")
      fcTail(s, j) ==
        j + 2 <= Len(s) /\ \A k \in (j + 2)..Len(s) : Ch(s, k) \in {" ", "."} \cup Digits
      fcCut(s, ls, j) ==
        IF j > 0 THEN Upto(s, j - 1 - TrailLen(Upto(s, j - 1), {" ", "."}))
        ELSE IF EndsWith(ls, " bepc") THEN Upto(s, Len(s) - 5)
        ELSE s
      fcIn(s, ls) == fcCut(s, ls, Least({j \in 1..Len(s) : At(ls, j, "fc") /\ fcTail(s, j)}))
      fedoraTail(s) == fcIn(s, Lower(s))
      crEnds(s, j) == {n \in 1..RunLen(s, j + 1, DigitDot) : Boundary(s, j + 1 + n)}
      crOk(s, i, w) == WordStartAt(s, i, "Chrome OS ") /\ w >= 1 /\ Ch(s, i + 10 + w) = " " /\
                       crEnds(s, i + 10 + w) # {}
      crDrop(s, j) == Splice(s, j, 1 + Greatest(crEnds(s, j)), "")
      crAt(s, i) == IF i = 0 THEN s ELSE crDrop(s, i + 10 + RunLen(s, i + 10, WordChars))
      chromeOS(s) == crAt(s, Least({i \in 1..Len(s) : crOk(s, i, RunLen(s, i + 10, WordChars))}))
      beforeOn(s) == Before(s, IndexOf(s, " on "))
      replaced(k, s) ==
        CASE k = 1 -> ReplacePattern(s, e, e.label)
          [] k = 2 -> ce(s)
          [] k = 3 -> hpw(s)
          [] k = 4 -> ReplaceWord(s, "Macintosh", "Mac OS")
          [] k = 5 -> powerPC(s)
          [] k = 6 -> osx(s)
          [] k = 7 -> ReplaceWord(s, "Mac OS X", "OS X")
          [] k = 8 -> slashDigit(s)
          [] k = 9 -> ReplaceAllCh(s, "_", ".")
          [] k = 10 -> fedoraTail(s)
          [] k = 11 -> FixX8664(s)
          [] k = 12 -> ReplaceWord(s, "Windows Phone OS", "Windows Phone")
          [] k = 13 -> chromeOS(s)
          [] k = 14 -> beforeOn(s)
          [] k = 15 -> format(s)
      RECURSIVE from(_, _)
      from(k, s) == IF s = "" \/ k > 15 THEN s ELSE from(k + 1, replaced(k, s))
  IN  from(1, WindowsName(os))

(* What getOS (lines 1371-1381) makes of entry k of its table: the text    *)
(* matched by the pattern and by what follows it (a slash and a version,   *)
(* or a run of spaces, word characters and dots), cleaned up; null for no  *)
(* entry.                                                                  *)
OSResult(ua, k) ==
  LET rest(t, j) == IF Ch(t, j) = "/" /\ RunLen(t, j + 1, DigitDot) >= 1
                    THEN 1 + RunLen(t, j + 1, DigitDot)
                    ELSE RunLen(t, j, {" ", "."} \cup WordChars)
      matched(t, i, n) == SubSeq(t, i, i + n + rest(t, i + n) - 1)
      at(t, lt, i, e) == matched(t, i, PatLen(lt, i, e))
      in(t, lt, e) == at(t, lt, PatIndex(lt, e), e)
      found(t, e) == cleanupOS(in(t, Lower(t), e), e)
  IN  IF k = 0 THEN NULL
      ELSE found(ua[Least({i \in DOMAIN ua : k \in OSHits[ua[i]]})], OSTable[k])

(* getOS: the first pattern, in table order, that matches. *)
getOS(ua) == OSResult(ua, FirstGuess(ua, OSHits, Len(OSTable)))

(* ---------------------------------------------------------------------- *)
(* getProduct (lines 1390-1411)                                            *)
(* ---------------------------------------------------------------------- *)

(* The text that the three RegExps of getProduct find for entry e in s:    *)
(*   pattern, spaces, digits and a run of dots and word characters;        *)
(*   pattern, spaces, word characters, a hyphen, word characters;          *)
(*   pattern, then "; model123" or "; vendor-model123", else the run of    *)
(*   characters up to a space, parenthesis, semicolon or hyphen.           *)
(* Each length is -1 where its RegExp does not match.                      *)
ProductMatch(s, e) ==
  LET orElse(a, b) == IF a >= 0 THEN a ELSE b
      digits(j, d) == IF d = 0 THEN -1 ELSE d + RunLen(s, j + d, {"."} \cup WordChars)
      numbered(j) == digits(j, RunLen(s, j, Digits))
      word(j, w) == IF w = 0 \/ Ch(s, j + w) # "-" THEN -1
                    ELSE w + 1 + RunLen(s, j + w + 1, WordChars)
      hyphened(j) == word(j, RunLen(s, j, WordChars))
      spaced(j, sp, after(_)) == Plus(sp, after(j + sp))
      code(l, d) == IF l >= 1 /\ d >= 1 THEN l + d ELSE -1
      letters(k, l) == code(l, RunLen(s, k + l, Digits))
      model(k) == letters(k, RunLen(s, k, Letters))
      vendor(j, l) == IF l >= 1 /\ Ch(s, j + l) \in {"_", "-"}
                      THEN Plus(l + 1, model(j + l + 1)) ELSE -1
      device(j) == orElse(vendor(j, RunLen(s, j, Letters)), model(j))
      listed(p, k) == Plus(k, device(p + k))
      semicolon(p) == IF Ch(s, p) # ";" THEN -1 ELSE listed(p, 1 + RunLen(s, p + 1, {" "}))
      tail(p) == orElse(semicolon(p), RunLenNot(s, p, {" ", "(", ")", ";", "-"}))
      after(i, n, rest(_)) == IF n < 0 THEN -1 ELSE Plus(n, rest(i + n))
      first(j) == spaced(j, RunLen(s, j, {" "}), numbered)
      second(j) == spaced(j, RunLen(s, j, {" "}), hyphened)
      len(ls, i, rest(_)) == after(i, PatLen(ls, i, e), rest)
      at(ls, i, rest(_)) == SubSeq(s, i, i + len(ls, i, rest) - 1)
      index(ls, rest(_)) == Least({i \in 1..Len(s) : len(ls, i, rest) >= 0})
      third(ls) == at(ls, index(ls, tail), tail)
      else2(ls, i) == IF i > 0 THEN at(ls, i, second) ELSE third(ls)
      else1(ls, i) == IF i > 0 THEN at(ls, i, first) ELSE else2(ls, index(ls, second))
      in(ls) == else1(ls, index(ls, first))
  IN  in(Lower(s))

(* The product string for entry e, found in the text s (lines 1396-1408):  *)
(* the label when the pattern is the label's own, else the match; at most  *)
(* two segments between slashes, the second only if the first has no       *)
(* number; then                                                            *)
(*   .replace(RegExp(pattern, 'i'), guess.label || guess)                  *)
(*   .replace(RegExp('; *(?:' + guess + '[_-])?', 'i'), ' ')               *)
(*   .replace(RegExp('(' + guess + ')[-_.]?(\\w)', 'i'), '$1 $2')          *)
(* and format, each applied to the result of the one before; none of them  *)
(* makes anything of the empty string.                                     *)
ProductResult(s, e) ==
  LET found == IF ~e.q /\ RawIndex(Lower(e.label), e) = 0 THEN e.label ELSE ProductMatch(s, e)
      head(r) == Before(r, IndexOf(r, "/"))
      rest(r, i) == IF i = 0 THEN "" ELSE From(r, i + 1)
      hasNumber(r) == \E i \in 1..Len(r) : Ch(r, i) \in DigitDot
      joined(r0, r1) == IF r1 # "" /\ ~hasNumber(r0) THEN r0 \o " " \o r1 ELSE r0
      segments(r) == joined(head(r), head(rest(r, IndexOf(r, "/"))))
      labelled(r) == At(Lower(r), 1, Lower(e.label)) /\ Ch(r, 1 + Len(e.label)) \in {"_", "-"}
      skip(r) == IF labelled(r) THEN From(r, Len(e.label) + 2) ELSE r
      semicolon(r, i) ==
        IF i = 0 THEN r
        ELSE Upto(r, i - 1) \o " " \o skip(From(r, i + 1 + RunLen(r, i + 1, {" "})))
      sep(r, p) == IF Ch(r, p) \in {"-", "_", "."} /\ Ch(r, p + 1) \in WordChars THEN 1
                   ELSE IF Ch(r, p) \in WordChars THEN 0 ELSE -1
      space(r, i, n) == IF i = 0 THEN r ELSE Upto(r, i + n - 1) \o " " \o From(r, i + n + sep(r, i + n))
      label(r, lr, ll) ==
        space(r, Least({k \in 1..Len(r) : At(lr, k, ll) /\ sep(r, k + Len(ll)) >= 0}), Len(ll))
      spaced(r) == label(r, Lower(r), Lower(e.label))
      unlisted(r) == semicolon(r, IndexOf(r, ";"))
      made(k, r) ==
        CASE k = 1 -> segments(r)
          [] k = 2 -> ReplacePattern(r, e, e.label)
          [] k = 3 -> unlisted(r)
          [] k = 4 -> spaced(r)
          [] k = 5 -> format(r)
      RECURSIVE from(_, _)
      from(k, r) == IF r = "" \/ k > 5 THEN r ELSE from(k + 1, made(k, r))
  IN  from(1, found)

(* getProduct over a table: the first entry, in table order, that matches. *)
getProduct(ua, tail, table, hits) ==
  LET first(k) == IF k = 0 THEN NULL ELSE ProductResult(Text(ua, tail), table[k])
  IN  first(FirstGuess(ua, hits, Len(table)))

(* getProduct([manufacturer]) (line 1458): a one-entry list. *)
getProductOf(ua, tail, label) ==
  LET in(s, e) == IF PatIndex(Lower(s), e) = 0 THEN NULL ELSE ProductResult(s, e)
  IN  in(Text(ua, tail), S(label))

(* ---------------------------------------------------------------------- *)
(* getManufacturer (lines 1338-1347)                                       *)
(* ---------------------------------------------------------------------- *)

(* For every fragment, the keys that occur in it followed by a word        *)
(* boundary, or by word characters ending in a digit:                      *)
(* RegExp('\\b' + qualify(key) + '(?:\\b|\\w*\\d)', 'i').test(ua).            *)
ManufacturerHits ==
  LET ends(lt, j, w) == Boundary(lt, j) \/ \E d \in 1..w : Ch(lt, j + d - 1) \in Digits
      from(lt, i, n) == n >= 0 /\ ends(lt, i + n, RunLen(lt, i + n, WordChars))
      has(lt, key) ==
        \E i \in 1..Len(lt) :
          from(lt, i, IF Boundary(lt, i) THEN QLen(lt, i, Lower(key)) ELSE -1)
  IN  [t \in Tokens |->
         {k \in DOMAIN ManufacturerTable : has(Lower(t), ManufacturerTable[k].key)}]

(* /^[a-z]+(?: +[a-z]+\b)*/i.exec(product), as a property key. *)
RECURSIVE MoreWords(_, _)
MoreWords(p, i) ==
  LET word(sp, l) == IF sp >= 1 /\ l >= 1 /\ Ch(p, i + sp + l) \notin WordChars
                     THEN sp + l + MoreWords(p, i + sp + l) ELSE 0
      spaces(sp) == word(sp, RunLen(p, i + sp, Letters))
  IN  spaces(RunLen(p, i, {" "}))

LeadingWords(p) ==
  LET words(l) == IF l = 0 THEN "null" ELSE Upto(p, l + MoreWords(p, l + 1))
  IN  words(RunLen(p, 1, Letters))

(* The keys that occur in the identification string, whatever the product. *)
ManufacturerInString(ua, product, table) ==
  {k \in DOMAIN table : k \in Matching(ua, ManufacturerHits)}

(* The keys that list the product or occur in the identification string,   *)
(* and the first of them in declaration order.                             *)
ManufacturerMatching(ua, product, table) ==
  {k \in DOMAIN table :
     \/ Str(product) \in table[k].products
     \/ LeadingWords(Str(product)) \in table[k].products
     \/ k \in Matching(ua, ManufacturerHits)}

getManufacturer(ua, product) ==
  LET key(table, k) == IF k = 0 THEN NULL ELSE table[k].key
      first(table) == key(table, reduce(Len(table), ManufacturerMatching(ua, product, table)))
  IN  first(ManufacturerTable)

(* ---------------------------------------------------------------------- *)
(* getVersion (lines 1420-1425)                                            *)
(* ---------------------------------------------------------------------- *)

(* The RegExp that getVersion builds from a pattern (line 1422), run on    *)
(* the fragment t: the version that pattern e finds there, NULL             *)
(* if none.  What follows the pattern at position j is "-1.2/" and the      *)
(* version, or an optional " for word", one of space, slash and hyphen,     *)
(* and the version.  The pattern Silk has a negative lookahead: not when a *)
(* slash and a version end the string.                                     *)
VersionIn(t, e, atEnd) ==
  LET sep(c) == Ch(t, c) \in {" ", "/", "-"} /\ RunLen(t, c + 1, DigitDot) >= 1
      hyphen(j, r) == Ch(t, j) = "-" /\ r >= 1 /\ Ch(t, j + 1 + r) = "/" /\
                      RunLen(t, j + 2 + r, DigitDot) >= 1
      for(lt, j, w) == IF At(lt, j, " for ") /\ w >= 1 THEN 5 + w ELSE 0
      after(j, r, f) == IF hyphen(j, r) THEN j + 2 + r
                        ELSE IF f > 0 /\ sep(j + f) THEN j + f + 1
                        ELSE IF sep(j) THEN j + 1
                        ELSE 0
      start(lt, j) == after(j, RunLen(t, j + 1, DigitDot),
                            for(lt, j, RunLen(t, j + 5, WordChars \cup {"-"})))
      silk(j) == ~(atEnd /\ Ch(t, j) = "/" /\ RunLen(t, j + 1, DigitDot) >= 1 /\
                   j + RunLen(t, j + 1, DigitDot) = Len(t))
      follows(lt, j, alt) == start(lt, j) > 0 /\ (alt = "Silk" => silk(j))
      fits(lt, i, n, alt) == n >= 0 /\ follows(lt, i + n, alt)
      alts(lt, i) == {k \in DOMAIN e.alts : fits(lt, i, AltLen(lt, i, e, e.alts[k]), e.alts[k])}
      run(k, d) == SubSeq(t, k, k + d + RunLenNot(t, k + d, {" ", "(", ")", ";", "/", "_", "-"}) - 1)
      capture(k) == run(k, RunLen(t, k, DigitDot))
      ofAlt(lt, i, k) == capture(start(lt, i + AltLen(lt, i, e, e.alts[k])))
      at(lt, i) == IF i = 0 THEN NULL ELSE ofAlt(lt, i, Least(alts(lt, i)))
      in(lt) == at(lt, Least({p \in 1..Len(t) : alts(lt, p) # {}}))
  IN  in(Lower(t))

(* A pattern's version in every fragment, in the middle and at the end of   *)
(* the identification string.                                              *)
VersionTable(e) == [t \in Tokens |-> [atEnd \in BOOLEAN |-> VersionIn(t, e, atEnd)]]

(* The patterns of lines 1543, 1544 and 1546. *)
VendorVersions ==
  VersionTable([label |-> "", q |-> TRUE,
                alts |-> <<"Cloud9", "CriOS", "CrMo", "Edge", "Edg", "EdgA", "EdgiOS", "FxiOS",
                           "HeadlessChrome", "IEMobile", "Iron", "Opera Mini", "OPiOS", "OPR",
                           "Raven", "SamsungBrowser", "Silk", "UCBrowser", "YaBrowser">>])
VersionTagVersions == VersionTable(P("", <<"Version">>))
GeckoVersions == VersionTable(P("", <<"Firefox", "Minefield", "NetFront">>))

(* re.exec(ua), given what the RegExp reads in each fragment of ua: what it *)
(* reads in the first fragment where it reads anything, NULL when it reads *)
(* nothing in any.                                                         *)
Exec(found) ==
  LET at(i) == IF i = 0 THEN NULL ELSE found[i]
  IN  at(Least({i \in DOMAIN found : found[i] # NULL}))

(* reduce over the patterns: the first pattern that finds a version. *)
RECURSIVE FirstVersion(_)
FirstVersion(found) ==
  IF found = <<>> THEN NULL
  ELSE IF Head(found) # NULL THEN Head(found) ELSE FirstVersion(Tail(found))

(* getVersion([vendors, 'Version', qualify(name), '(?:Firefox|Minefield|NetFront)']) *)
getVersion(ua, tail, name) ==
  LET byVendor(t, atEnd) == VendorVersions[t][atEnd]
      byTag(t, atEnd) == VersionTagVersions[t][atEnd]
      byName(t, atEnd) == VersionIn(t, S(Str(name)), atEnd)
      byGecko(t, atEnd) == GeckoVersions[t][atEnd]
      by(find(_, _)) ==
        Exec([i \in DOMAIN ua |-> find(ua[i], i = Len(ua) /\ tail = "")])
  IN  FirstVersion(<<by(byVendor), by(byTag), by(byName), by(byGecko)>>)

(* getVersion('Chrome') (line 1817): each walks the string's characters,   *)
(* so every character is a pattern of its own.                             *)
getVersionChars(ua, tail, word) ==
  LET byChar(k) == LET find(t, atEnd) == VersionIn(t, P("", <<Ch(word, k)>>), atEnd)
                   IN  Exec([i \in DOMAIN ua |-> find(ua[i], i = Len(ua) /\ tail = "")])
  IN  FirstVersion([k \in 1..Len(word) |-> byChar(k)])

(* ---------------------------------------------------------------------- *)
(* Numbers read from strings                                               *)
(* ---------------------------------------------------------------------- *)

RECURSIVE ToInt(_)
ToInt(s) ==
  IF s = "" THEN 0
  ELSE 10 * ToInt(Upto(s, Len(s) - 1)) + (IndexOf("0123456789", Ch(s, Len(s))) - 1)

(* Numbers are kept in hundredths: 537.36 is 53736.  NaN is -1. *)
NaN == -1

(* The number that t starts with: n digits, and f more after a point. *)
NumericPrefix(t, n, f) ==
  100 * ToInt(Upto(t, n)) + ToInt(Upto(SubSeq(t, n + 2, n + 1 + f) \o "00", 2))
FractionLen(t, n) == IF Ch(t, n + 1) = "." THEN RunLen(t, n + 2, Digits) ELSE 0

(* parseFloat(s): the longest numeric prefix. *)
parseFloat(s) ==
  LET of(t, n, f) == IF n = 0 /\ f = 0 THEN NaN ELSE NumericPrefix(t, n, f)
      digits(t, n) == of(t, n, FractionLen(t, n))
      in(t) == digits(t, RunLen(t, 1, Digits))
  IN  in(trim(s))

(* parseInt(s), in hundredths. *)
parseInt(s) ==
  LET digits(t, n) == IF n = 0 THEN NaN ELSE 100 * ToInt(Upto(t, n))
      in(t) == digits(t, RunLen(t, 1, Digits))
  IN  in(trim(s))

(* Number(x), as the comparisons version > 5.5 and version == 8 take it:    *)
(* the whole string must be a number.                                      *)
ToNumber(x) ==
  LET whole(t, n, f) == (IF Ch(t, n + 1) = "." THEN n + 1 + f = Len(t) ELSE n = Len(t)) /\
                        n + f > 0
      of(t, n, f) == IF whole(t, n, f) THEN NumericPrefix(t, n, f) ELSE NaN
      digits(t, n) == of(t, n, FractionLen(t, n))
      in(t) == digits(t, RunLen(t, 1, Digits))
  IN  IF x = UNDEFINED THEN NaN
      ELSE IF x \in {NULL, FALSEV, ""} THEN 0
      ELSE in(trim(x))

(* ---------------------------------------------------------------------- *)
(* Context objects: the capability hints (lines 253-315, 1581-1659)        *)
(* ---------------------------------------------------------------------- *)

(* A context is a function from hint names to the shape of the hint.       *)
(*   agent       navigator.userAgent: which identification string          *)
(*   global      context.global is an object or a function                 *)
(*   java        absent | bare (no lang.System) | full                     *)
(*   environment context.environment is an object                         *)
(*   require     absent | ringo (require('ringo/engine') answers)          *)
(*   system      absent | bare (no global) | narwhal                       *)
(*   process     absent | bare | browser | nullVersions | node |           *)
(*               electron | nw                                             *)
(*   runtime     absent | bare (no flash) | air                            *)
(*   phantom     absent | bare (no version) | full                         *)
(*   opera       absent | bare (not of class Opera) | opera | mini         *)
(*               (operamini, of class OperaMini, without version())        *)
(*   documentMode absent | 7 | 11                                          *)
(*   external    absent | null | throws                                    *)
(*   likeChrome  navigator.likeChrome, or a native toString that does not  *)
(*               read "internal" when the context is the global object     *)
HintNames == {"agent", "global", "java", "environment", "require", "system", "process",
              "runtime", "phantom", "opera", "documentMode", "external", "likeChrome"}

EmptyContext ==
  [h \in HintNames |-> IF h \in {"global", "environment", "likeChrome"} THEN "no" ELSE "absent"]

Hint(n, v) == [name |-> n, value |-> v]

Hints ==
  {Hint("agent", "ie9"), Hint("agent", "chrome"), Hint("agent", "opera"),
   Hint("agent", "webkit"),
   Hint("global", "yes"), Hint("java", "bare"), Hint("java", "full"),
   Hint("environment", "yes"), Hint("require", "ringo"),
   Hint("system", "bare"), Hint("system", "narwhal"),
   Hint("process", "bare"), Hint("process", "browser"), Hint("process", "nullVersions"),
   Hint("process", "node"), Hint("process", "electron"), Hint("process", "nw"),
   Hint("runtime", "bare"), Hint("runtime", "air"),
   Hint("phantom", "bare"), Hint("phantom", "full"),
   Hint("opera", "bare"), Hint("opera", "opera"),
   Hint("documentMode", "7"), Hint("documentMode", "11"),
   Hint("external", "null"), Hint("external", "throws"),
   Hint("likeChrome", "yes")}

(* The most hints a context object given to parse carries. *)
MaxHints == 1

(* The context that carries the hints hs (a sequence; later ones win). *)
WithHints(hs) ==
  [h \in HintNames |->
     LET at == {i \in DOMAIN hs : hs[i].name = h}
     IN  IF at = {} THEN EmptyContext[h]
         ELSE hs[CHOOSE i \in at : \A j \in at : i >= j].value]

(* Contexts with more hints that are parsed as well: Rhino with RingoJS,    *)
(* with Narwhal, with a system object that has no global, and bare; IE in  *)
(* a compatibility mode, also on Windows Phone in desktop mode; a WebKit    *)
(* host that is like Chrome.                                               *)
SampleContexts ==
  LET rhino == <<Hint("global", "yes"), Hint("java", "full"), Hint("environment", "yes")>>
  IN  {WithHints(rhino \o <<Hint("require", "ringo")>>),
       WithHints(rhino \o <<Hint("system", "narwhal")>>),
       WithHints(rhino \o <<Hint("system", "bare")>>),
       WithHints(rhino),
       WithHints(<<Hint("agent", "ie7"), Hint("documentMode", "7")>>),
       WithHints(<<Hint("agent", "ie7"), Hint("documentMode", "11")>>),
       WithHints(<<Hint("agent", "wp8"), Hint("documentMode", "7")>>),
       WithHints(<<Hint("agent", "webkit"), Hint("likeChrome", "yes")>>)}

Contexts ==
  {WithHints(hs) : hs \in UNION {[1..n -> Hints] : n \in 0..MaxHints}} \cup SampleContexts

(* The contexts the module is loaded in (the global object). *)
AmbientContexts ==
  {EmptyContext,
   WithHints(<<Hint("agent", "ie9")>>),
   WithHints(<<Hint("java", "full")>>),
   WithHints(<<Hint("opera", "mini")>>)}

(* ---------------------------------------------------------------------- *)
(* RegExps with captures run on the identification string                  *)
(* ---------------------------------------------------------------------- *)

(* A prefix at a word boundary followed by a run of characters of cls, as   *)
(* in /\bFirefox\/([\d.]+)/.exec(ua)[1]: the captured run, NULL if none.    *)
(* ci: the flag i; plus: a "+" after the run is captured too; wordEnd: the  *)
(* capture ends at \b.                                                      *)
Capture(ua, prefix, ci, cls, plus, wordEnd) ==
  LET ends(t, k, r) == {n \in 1..r : Boundary(t, k + n)}
      len(t, k, r) == IF wordEnd THEN Greatest(ends(t, k, r)) ELSE r
      run(t, k) == len(t, k, RunLen(t, k, cls))
      extra(t, k) == IF plus /\ Ch(t, k) = "+" THEN 1 ELSE 0
      cut(t, k, n) == SubSeq(t, k, k + n + extra(t, k + n) - 1)
      at(t, i) == IF i = 0 THEN NULL ELSE cut(t, i + Len(prefix), run(t, i + Len(prefix)))
      in(t, s, p) ==
        at(t, Least({i \in 1..Len(t) : WordStartAt(s, i, p) /\ run(t, i + Len(p)) >= 1}))
      of(t) == in(t, IF ci THEN Lower(t) ELSE t, IF ci THEN Lower(prefix) ELSE prefix)
  IN  Exec([i \in DOMAIN ua |-> of(ua[i])])

(* An architecture RegExp that finds no token. *)
ArchTokenNone(s) == NULL

(* An architecture RegExp that knows the token Win64 only. *)
ArchTokenWin(s) == IF Contains(s, "Win64") THEN "Win64" ELSE NULL

(* /\b(?:AMD|IA|Win|WOW|x86_|x)64\b/i.exec(s)[0]: the token, NULL if none. *)
ArchToken(s) ==
  LET prefixes == <<"amd", "ia", "win", "wow", "x86_", "x">>
      fits(ls, i, p) == At(ls, i, p \o "64") /\ Boundary(ls, i) /\ Boundary(ls, i + Len(p) + 2)
      cut(i, p) == SubSeq(s, i, i + Len(p) + 1)
      at(ls, i) ==
        IF i = 0 THEN NULL
        ELSE cut(i, prefixes[Least({k \in DOMAIN prefixes : fits(ls, i, prefixes[k])})])
      in(ls) == at(ls, Least({i \in 1..Len(s) : \E k \in DOMAIN prefixes : fits(ls, i, prefixes[k])}))
  IN  in(Lower(s))

(* ---------------------------------------------------------------------- *)
(* A parse invocation: its locals (lines 253-338)                          *)
(* ---------------------------------------------------------------------- *)

(* What parse is given: a string, a context object, or nothing. *)
StringInput(ua) == [kind |-> "string", ua |-> ua, ctx |-> EmptyContext]
ContextInput(ctx) == [kind |-> "context", ua |-> <<>>, ctx |-> ctx]
NoInput == [kind |-> "undefined", ua |-> <<>>, ctx |-> EmptyContext]

(* The platform object (lines 1893-2041).  os.architecture is a number, 0  *)
(* standing for null; osString is String(platform.os) and render is        *)
(* String(platform).  notes are the auxiliary notes collected on the way,  *)
(* which the platform object itself does not keep.                         *)
NoRecord ==
  [description |-> NULL, layout |-> NULL, manufacturer |-> NULL, name |-> NULL,
   prerelease |-> NULL, product |-> NULL, ua |-> NULL, version |-> NULL,
   osFamily |-> NULL, osVersion |-> NULL, osArchitecture |-> 0, osString |-> "null",
   render |-> "", notes |-> <<>>, bitNote |-> FALSE]

(* A description array that outlives the invocation. *)
SharedDescription == outcome.platform.notes

(* var description = [] (line 326). *)
InitialDescription == <<>>

(* The locals of an invocation parse.call(this, input) before the matchers  *)
(* run.  root is the context the module was loaded in.                     *)
NewFrame(given, thisIsForOwn, tail, root) ==
  LET isCustomContext == given.kind = "context"
      context == IF isCustomContext THEN given.ctx ELSE root
      userAgent == AgentUA[context["agent"]]
      stringGiven == given.kind = "string" /\ Text(given.ua, tail) # ""
      ua == IF stringGiven THEN given.ua ELSE userAgent
      uaTail == IF stringGiven THEN tail ELSE ""
      java == IF isCustomContext THEN context["java"] # "absent" ELSE context["java"] = "full"
      opera == context["opera"] \in {"opera", "mini"}
      useFeatures == Text(ua, uaTail) = Text(userAgent, "")
  IN  [pc |-> "Match",
       ua |-> ua,
       tail |-> uaTail,
       thisIsForOwn |-> thisIsForOwn,
       isCustomContext |-> isCustomContext,
       context |-> context,
       likeChrome |-> IF isCustomContext THEN context["likeChrome"] = "yes"
                      ELSE Word(ua, "Chrome") /\ context["likeChrome"] = "yes",
       java |-> java,
       rhino |-> java /\ context["environment"] = "yes",
       alpha |-> IF java THEN "a" ELSE "{alpha}",
       beta |-> IF java THEN "b" ELSE "{beta}",
       opera |-> opera,
       operaClass |-> IF context["opera"] = "opera" THEN "Opera"
                      ELSE IF context["opera"] = "mini" THEN "OperaMini" ELSE NULL,
       arch |-> UNDEFINED,
       archIsUa |-> TRUE,
       description |-> InitialDescription,
       prerelease |-> NULL,
       useFeatures |-> useFeatures,
       version |-> IF ~useFeatures \/ context["opera"] = "mini" THEN FALSEV
                   ELSE IF opera THEN "12.16" ELSE NULL,
       layout |-> <<>>,
       name |-> NULL,
       product |-> NULL,
       manufacturer |-> NULL,
       os |-> NULL,
       osFamily |-> NULL,
       osVersion |-> NULL,
       osArchitecture |-> 0,
       isSpecialCasedOS |-> FALSE,
       hasOS |-> FALSE,
       notes |-> <<>>,
       bitNote |-> FALSE,
       returned |-> NoRecord,
       error |-> ""]

(* String(layout): an array reads as its elements joined by commas. *)
LayoutStr(layout) == IF layout = <<>> THEN "null" ELSE Join(layout, ",")

(* What the hints answer when they are complete: java.lang.System's        *)
(* os.arch, os.name and os.version, require('ringo/engine').version,       *)
(* system.os, process.versions, process.arch, process.platform,            *)
(* process.version, runtime.flash.system.Capabilities.os and               *)
(* phantom.version joined by dots.                                         *)
Answers ==
  [javaOSArch |-> "amd64", javaOSName |-> "Linux", javaOSVersion |-> "5.4",
   ringoVersion |-> "0.9", narwhalOS |-> "linux",
   node |-> "10.0", electron |-> "2.0", nw |-> "0.30",
   nodeArch |-> "x64", nodePlatform |-> "linux", nodeVersion |-> "v10.0",
   airOS |-> "Windows XP", phantomVersion |-> "2.1.1"]

(* A TypeError is thrown. *)
Throw(f) == [f EXCEPT !.error = "TypeError", !.pc = "Threw"]

(* a == b for a value a and a string-or-undefined b. *)
LooseEq(a, b) ==
  IF a \in {NULL, UNDEFINED} \/ b \in {NULL, UNDEFINED}
  THEN a \in {NULL, UNDEFINED} /\ b \in {NULL, UNDEFINED}
  ELSE IF a = FALSEV THEN ToNumber(b) = 0
  ELSE a = b

(* ---------------------------------------------------------------------- *)
(* The platform object (lines 1883-2041)                                   *)
(* ---------------------------------------------------------------------- *)

(* An architecture that is 64 for every resolved OS. *)
ArchitectureAlways64(hasOS, evidence) == IF ~hasOS THEN 0 ELSE 64

(* os.architecture: 32 in the object of line 1853, 64 by lines 1865 and     *)
(* 1880, null (0) in the object that stands for an unresolved OS (line 1994). *)
Architecture(hasOS, evidence) == IF ~hasOS THEN 0 ELSE IF evidence THEN 64 ELSE 32

(* The version kept whatever the name. *)
PlatformVersionUnguarded(name, version) == version

(* platform.version = name && version (line 1978). *)
PlatformVersion(name, version) == IF Truthy(name) THEN version ELSE name

(* A description that is the empty string when there are no segments. *)
DescriptionOrEmpty(segments, ua) == IF segments # <<>> THEN Join(segments, " ") ELSE ""

(* platform.description = ua (line 1901), replaced by the joined segments   *)
(* when there are any (lines 2038-2040).                                   *)
DescriptionOf(segments, ua) == IF segments # <<>> THEN Join(segments, " ") ELSE ua

(* A toString that answers the empty string whatever the description. *)
toStringUa(description) == ""

(* toStringPlatform (lines 1434-1436): this.description || ''. *)
toStringPlatform(description) == IF Truthy(description) THEN description ELSE ""

(* Lines 1883-2041: the platform object that parse returns.  The OS reads   *)
(* as its family, its version unless that is special-cased, and " 64-bit"  *)
(* (lines 1856-1859); an unresolved OS reads "null" (line 1996).           *)
PlatformOf(f) ==
  LET text(ua) == IF ua = "" THEN NULL ELSE ua
      osToString ==
        f.osFamily \o (IF Truthy(f.osVersion) /\ ~f.isSpecialCasedOS THEN " " \o f.osVersion ELSE "")
                   \o (IF f.osArchitecture = 64 THEN " 64-bit" ELSE "")
      firstWord(name, i) == IF i = 0 THEN name ELSE Upto(name, i - 1)
      oneWord(os) ==
        ~Contains(os, " ") /\ (os = firstWord(f.name, IndexOf(f.name, " ")) \/ Truthy(f.product))
      versioned(version, d) == IF Truthy(version) THEN <<f.version>> \o d ELSE d
      named(d) == IF Truthy(f.name) THEN <<f.name>> \o d ELSE d
      on(os, d) ==
        IF f.hasOS /\ Truthy(f.name) /\ ~oneWord(os)
        THEN Append(d, IF Truthy(f.product) THEN "(" \o os \o ")" ELSE "on " \o os)
        ELSE d
      record(ua, version, os, description) ==
        [description |-> description,
         layout |-> IF f.layout = <<>> THEN NULL ELSE f.layout[1],
         manufacturer |-> f.manufacturer,
         name |-> f.name,
         prerelease |-> f.prerelease,
         product |-> f.product,
         ua |-> ua,
         version |-> version,
         osFamily |-> f.osFamily,
         osVersion |-> f.osVersion,
         osArchitecture |-> f.osArchitecture,
         osString |-> os,
         render |-> toStringPlatform(description),
         notes |-> f.notes,
         bitNote |-> f.bitNote]
      described(ua, version, os) ==
        record(ua, version, os,
               DescriptionOf(on(os, named(versioned(version, f.description))), ua))
  IN  described(text(Text(f.ua, f.tail)), PlatformVersion(f.name, f.version),
                IF f.hasOS THEN osToString ELSE "null")

(* ---------------------------------------------------------------------- *)
(* The program: parse invocations on a call stack                          *)
(* ---------------------------------------------------------------------- *)

(* How many times the same input is parsed. *)
MaxCalls == 2

UAs == UNION {[1..n -> Vocabulary] : n \in 0..MaxUaLen} \cup SampleUAs

Inputs == {StringInput(ua) : ua \in UAs} \cup {ContextInput(c) : c \in Contexts} \cup {NoInput}

NoOutcome == [status |-> "none", platform |-> NoRecord]

Init ==
  /\ ambient \in AmbientContexts
  /\ input \in Inputs
  /\ outcome = NoOutcome
  /\ calls = 1
  /\ prev = NoOutcome
  /\ stack = <<NewFrame(input, FALSE, "", ambient)>>

Top == stack[Len(stack)]
Caller == stack[Len(stack) - 1]
Running(pc) == stack # <<>> /\ Top.pc = pc

(* A step that leaves the notes in reverse order when the rules of the     *)
(* capability hints have run.                                              *)
StepReversing(frame) ==
  LET notes == frame.description
      reversed == [i \in DOMAIN notes |-> notes[Len(notes) + 1 - i]]
  IN  /\ stack' = [stack EXCEPT ![Len(stack)] =
                     IF frame.pc = "Prerelease" THEN [frame EXCEPT !.description = reversed]
                     ELSE frame]
      /\ UNCHANGED <<ambient, input, outcome, calls, prev>>

(* The innermost invocation takes one step. *)
Step(frame) ==
  /\ stack' = [stack EXCEPT ![Len(stack)] = frame]
  /\ UNCHANGED <<ambient, input, outcome, calls, prev>>

(* The innermost invocation calls parse.call(this, ua). *)
Call(awaiting, ua, thisIsForOwn, tail) ==
  /\ stack' = Append([stack EXCEPT ![Len(stack)].pc = awaiting],
                     NewFrame(StringInput(ua), thisIsForOwn, tail, ambient))
  /\ UNCHANGED <<ambient, input, outcome, calls, prev>>

ReturnWriting(frame) ==
  /\ stack' = [SubSeq(stack, 1, Len(stack) - 1) EXCEPT ![Len(stack) - 1] = frame]
  /\ prev' = [prev EXCEPT !.platform = frame.returned]
  /\ UNCHANGED <<ambient, input, outcome, calls>>

(* The innermost invocation returns to its caller, which goes on as frame. *)
Return(frame) ==
  /\ stack' = [SubSeq(stack, 1, Len(stack) - 1) EXCEPT ![Len(stack) - 1] = frame]
  /\ UNCHANGED <<ambient, input, outcome, calls, prev>>

(* Lines 340-1322 and 1441: the five matchers.  manufacturer is declared   *)
(* twice: var manufacturer = getProduct([model codes]) (line 846) and then *)
(* var manufacturer = getManufacturer({...}) (line 1255), which assigns    *)
(* the same variable again before it is read.                              *)
Match ==
  /\ Running("Match")
  /\ LET f == Top
         byModelCode == getProduct(f.ua, f.tail, ModelCodeTable, ModelCodeHits)
         assigned(first, second) == second
         all(layout, product) ==
           [f EXCEPT !.layout = IF layout = NULL THEN <<>> ELSE <<layout>>,
                     !.name = getName(f.ua),
                     !.product = product,
                     !.manufacturer = assigned(byModelCode, getManufacturer(f.ua, product)),
                     !.os = getOS(f.ua),
                     !.pc = "Product"]
     IN  Step(all(getLayout(f.ua), getProduct(f.ua, f.tail, ProductTable, ProductHits)))

(* Lines 1449-1475: the product of an Android device, of a manufacturer,   *)
(* Google TV and the iOS simulator; Opera Mini's Turbo mode.               *)
(*   /\bAndroid[^;]*;(.*?)(?:Build|\) AppleWebKit)\b/i.exec(ua)[1]          *)
(*   .replace(/^[a-z]{2}-[a-z]{2};\s*/i, '')                                *)
(*   .replace(RegExp('^(' + qualify(manufacturer) + ')[-_.\\s]', 'i'),      *)
(*            manufacturer + ' ')                                           *)
(*   .replace(RegExp('^(' + qualify(manufacturer) + ')[-_.]?(\\w)', 'i'),   *)
(*            manufacturer + ' $2')                                         *)
Product ==
  /\ Running("Product")
  /\ LET f == Top
         semi(s, i) == i + 7 + RunLenNot(s, i + 7, {";"})
         ends(s, ls, i) ==
           {k \in (semi(s, i) + 1)..Len(s) :
              \/ At(ls, k, "build") /\ Boundary(ls, k + 5)
              \/ At(ls, k, ") applewebkit") /\ Boundary(ls, k + 13)}
         deviceAt(s, ls, i) ==
           IF i = 0 THEN NULL ELSE SubSeq(s, semi(s, i) + 1, Least(ends(s, ls, i)) - 1)
         deviceIn(s, ls) ==
           deviceAt(s, ls, Least({i \in 1..Len(s) :
                                    WordStartAt(ls, i, "android") /\ Ch(s, semi(s, i)) = ";" /\
                                    ends(s, ls, i) # {}}))
         device(s) == deviceIn(s, Lower(s))
         dropLanguage(s) ==
           IF Ch(s, 1) \in Letters /\ Ch(s, 2) \in Letters /\ Ch(s, 3) = "-" /\
              Ch(s, 4) \in Letters /\ Ch(s, 5) \in Letters /\ Ch(s, 6) = ";"
           THEN From(s, 7 + RunLen(s, 7, {" "})) ELSE s
         orNull(s) == IF s = "" THEN NULL ELSE s
         android(d) == IF d = NULL THEN f.product ELSE orNull(dropLanguage(trim(d)))
         head(p, m, n) ==
           IF n >= 0 /\ Ch(p, n + 1) \in {"-", "_", ".", " "}
           THEN m \o " " \o From(p, n + 2) ELSE p
         sep(p, n) ==
           IF Ch(p, n + 1) \in {"-", "_", "."} /\ Ch(p, n + 2) \in WordChars THEN 1
           ELSE IF Ch(p, n + 1) \in WordChars THEN 0 ELSE -1
         spaced(p, m, n, k) == IF n >= 0 /\ k >= 0 THEN m \o " " \o From(p, n + 1 + k) ELSE p
         second(p, m, n) == spaced(p, m, n, sep(p, n))
         first(p, m) == second(p, m, QLen(Lower(p), 1, Lower(m)))
         split(p, m) == first(head(p, m, QLen(Lower(p), 1, Lower(m))), m)
         made(p) ==
           IF Truthy(f.manufacturer) /\ ~Truthy(p) THEN getProductOf(f.ua, f.tail, f.manufacturer)
           ELSE IF Truthy(f.manufacturer) /\ Truthy(p) THEN split(p, f.manufacturer)
           ELSE p
         tv(p) == IF HasWord(Str(p), "Google TV") THEN "Google TV" ELSE p
         simulator(p) ==
           IF WordCI(f.ua, "Simulator")
           THEN (IF Truthy(p) THEN p \o " " ELSE "") \o "Simulator" ELSE p
     IN  Step([f EXCEPT
                 !.product =
                   simulator(tv(made(android(
                     IF HasWord(Str(f.os), "Android") /\ ~Truthy(f.product)
                     THEN device(Text(f.ua, f.tail)) ELSE NULL)))),
                 !.description =
                   IF f.name = "Opera Mini" /\ Word(f.ua, "OPiOS")
                   THEN Append(@, "running in Turbo/Uncompressed mode") ELSE @,
                 !.pc = "Mode"])

(* The condition of the IE Mobile 11 rule (line 1477). *)
IEMobile11(f) == f.name = "IE" /\ Word(f.ua, "like iPhone OS")

(* ua.replace(re, ''), given what the replacement makes of each fragment:   *)
(* the first fragment that it changes is replaced.                         *)
Without(ua, stripped) ==
  LET at(i) == IF i = 0 THEN ua ELSE [ua EXCEPT ![i] = stripped[i]]
  IN  at(Least({i \in DOMAIN ua : stripped[i] # ua[i]}))

(* Line 1477-1478: the IE Mobile 11 rule parses the string again,           *)
(* parse(ua.replace(/like iPhone OS/, '')).                                *)
IEMobileCall ==
  /\ Running("Mode") /\ IEMobile11(Top)
  /\ Call("AwaitIEMobile",
          Without(Top.ua, [i \in DOMAIN Top.ua |-> StripLikeIPhone(Top.ua[i])]),
          FALSE, Top.tail)

(* Lines 1479-1480. *)
IEMobileReturn ==
  /\ Running("Record") /\ Len(stack) > 1 /\ Caller.pc = "AwaitIEMobile"
  /\ LET back(data) ==
           Return([Caller EXCEPT !.manufacturer = data.manufacturer,
                                 !.product = data.product,
                                 !.returned = data,
                                 !.pc = "Version"])
     IN  back(PlatformOf(Top))

(* Lines 1482-1539: the rules that are alternatives to the IE Mobile 11     *)
(* rule.                                                                   *)
(*   / OS ([\d_]+)/i.exec(ua)[1]                                            *)
(*   /\b(Mobile|Tablet|TV)\b/i.exec(ua)[1]                                  *)
(*   /Accelerated *= *true/i.test(ua)                                       *)
(*   /[a-z]+(?: Hat)?/i.exec(s) + ' Browser'                                *)
(*   /[\/,]|^[^(]+?\)/.test(s)                                              *)
Mode ==
  /\ Running("Mode") /\ ~IEMobile11(Top)
  /\ LET f == Top
         text == Text(f.ua, f.tail)
         osStr == Str(f.os)
         nameStr == Str(f.name)
         isAndroid == HasWord(osStr, "Android")
         done(g) == [g EXCEPT !.pc = "Version"]
         iosAt(s, i) == IF i = 0 THEN "" ELSE " " \o ReplaceAllCh(Run(s, i + 4, Digits \cup {"_"}), "_", ".")
         iosIn(s, ls) ==
           iosAt(s, Least({i \in 1..Len(s) : At(ls, i, " os ") /\ Ch(s, i + 4) \in Digits \cup {"_"}}))
         factors == <<"mobile", "tablet", "tv">>
         factorAt(t, lt, i) ==
           IF i = 0 THEN NULL
           ELSE SubSeq(t, i, i + Len(factors[Least({k \in 1..3 : WordAt(lt, i, factors[k])})]) - 1)
         factorIn(t, lt) ==
           factorAt(t, lt, Least({i \in 1..Len(t) : \E k \in 1..3 : WordAt(lt, i, factors[k])}))
         factor(t) == factorIn(t, Lower(t))
         formFactor(found) ==
           done([f EXCEPT !.os = IF Truthy(@) THEN @ ELSE "Firefox OS",
                          !.product = IF Truthy(@) THEN @ ELSE found])
         acceleratedAt(t, lt, i, a) ==
           At(lt, i, "accelerated") /\ Ch(t, a) = "=" /\
           At(lt, a + 1 + RunLen(t, a + 1, {" "}), "true")
         acceleratedIn(t, lt) ==
           \E i \in 1..Len(t) : acceleratedAt(t, lt, i, i + 11 + RunLen(t, i + 11, {" "}))
         accelerated == \E i \in DOMAIN f.ua : acceleratedIn(f.ua[i], Lower(f.ua[i]))
         desktop(d) == IF ~WordStartCI(f.ua, "Mobi") THEN <<"desktop mode">> \o d ELSE d
         silk(d) == IF accelerated THEN <<"accelerated">> \o d ELSE d
         identifying(label, version) ==
           done([f EXCEPT !.description = Append(@, label \o version)])
         engineName ==
           IF ~WordCI(f.ua, "Minefield")
           THEN (IF HasWord(nameStr, "Firefox") THEN "Firefox"
                 ELSE IF HasWord(nameStr, "Safari") THEN "Safari" ELSE NULL)
           ELSE FALSEV
         productList(s) ==
           \/ \E i \in 1..Len(s) : Ch(s, i) \in {"/", ","}
           \/ \E i \in 2..Len(s) : Ch(s, i) = ")" /\ \A j \in 1..(i - 1) : Ch(s, j) # "("
         unnamed ==
           IF Truthy(f.name) /\ ~Truthy(f.product) /\
              productList(From(text, IndexOf(text, engineName \o "/") + 8))
           THEN NULL ELSE f.name
         genericAt(s, i, n) ==
           (IF i = 0 THEN "null"
            ELSE SubSeq(s, i, i + n + (IF At(Lower(s), i + n, " hat") THEN 4 ELSE 0) - 1))
           \o " Browser"
         genericFrom(s, i) == genericAt(s, i, RunLen(s, i, Letters))
         generic(s) == genericFrom(s, Least({i \in 1..Len(s) : Ch(s, i) \in Letters}))
         source ==
           IF Truthy(f.product) THEN f.product
           ELSE IF Truthy(f.manufacturer) THEN f.manufacturer ELSE f.os
         isGeneric ==
           Truthy(source) /\
           (Truthy(f.product) \/ Truthy(f.manufacturer) \/ isAndroid \/
            HasWord(osStr, "Symbian OS") \/ HasWord(osStr, "Tablet OS") \/
            HasWord(osStr, "webOS"))
         rules(firefox, found, chromium) ==
           IF StartsWith(Str(f.product), "iP") THEN
             done([f EXCEPT !.name = IF Truthy(@) THEN @ ELSE "Safari",
                            !.os = "iOS" \o iosIn(text, Lower(text))])
           ELSE IF f.name = "Konqueror" /\ WordStartAt(Lower(osStr), 1, "linux") THEN
             done([f EXCEPT !.os = "Kubuntu"])
           ELSE IF \/ /\ Truthy(f.manufacturer) /\ f.manufacturer # "Google"
                      /\ \/ Contains(nameStr, "Chrome") /\ ~WordCI(f.ua, "Mobile Safari")
                         \/ HasWord(Str(f.product), "Vita")
                   \/ isAndroid /\ StartsWith(nameStr, "Chrome") /\ WordStartCI(f.ua, "Version/") THEN
             done([f EXCEPT !.name = "Android Browser",
                            !.os = IF isAndroid THEN @ ELSE "Android"])
           ELSE IF f.name = "Silk" THEN
             done([f EXCEPT !.os = IF ~WordStartCI(f.ua, "Mobi") THEN "Android" ELSE @,
                            !.description = silk(desktop(@))])
           ELSE IF f.name = "UC Browser" /\ Word(f.ua, "UCWEB") THEN
             done([f EXCEPT !.description = Append(@, "speed mode")])
           ELSE IF f.name = "PaleMoon" /\ firefox # NULL THEN
             identifying("identifying as Firefox ", firefox)
           ELSE IF f.name = "Firefox" /\ found # NULL THEN formFactor(found)
           ELSE IF ~Truthy(f.name) \/ Truthy(engineName) THEN
             done([f EXCEPT !.name = IF isGeneric
                                     THEN generic(IF isAndroid THEN f.os ELSE source)
                                     ELSE unnamed])
           ELSE IF f.name = "Electron" /\ chromium # NULL THEN
             identifying("Chromium ", chromium)
           ELSE done(f)
     IN  Step(rules(Capture(f.ua, "Firefox/", FALSE, DigitDot, FALSE, TRUE),
                    Exec([i \in DOMAIN f.ua |-> factor(f.ua[i])]),
                    Capture(f.ua, "Chrome/", FALSE, DigitDot, FALSE, TRUE)))

(* Lines 1541-1548. *)
Version ==
  /\ Running("Version")
  /\ LET f == Top
     IN  Step([f EXCEPT !.version = IF Truthy(@) THEN @ ELSE getVersion(f.ua, f.tail, f.name),
                        !.pc = "Layout"])

(* Lines 1549-1558: stubborn layout engines.                               *)
(*   /\bPlayStation\b(?! Vita\b)/i.test(name)                               *)
Layout ==
  /\ Running("Layout")
  /\ LET f == Top
         l == LayoutStr(f.layout)
         nameStr == Str(f.name)
         playStation(ls) ==
           \E i \in 1..Len(ls) : WordAt(ls, i, "playstation") /\ ~WordAt(ls, i + 11, " vita")
         engine ==
           IF l = "iCab" /\ parseFloat(Str(f.version)) > 300 THEN "WebKit"
           ELSE IF HasWord(nameStr, "Opera") THEN (IF Word(f.ua, "OPR") THEN "Blink" ELSE "Presto")
           ELSE IF (WordCI(f.ua, "Midori") \/ WordCI(f.ua, "Nook") \/ WordCI(f.ua, "Safari")) /\
                   l \notin {"Trident", "EdgeHTML"} THEN "WebKit"
           ELSE IF f.layout = <<>> /\ WordCI(f.ua, "MSIE")
                THEN (IF f.os = "Mac OS" THEN "Tasman" ELSE "Trident")
           ELSE IF l = "WebKit" /\ playStation(Lower(nameStr)) THEN "NetFront"
           ELSE NULL
         set(e) == [f EXCEPT !.layout = IF e = NULL THEN @ ELSE <<e>>,
                             !.pc = "WindowsPhone"]
     IN  Step(set(engine))

(* Lines 1559-1579: Windows Phone desktop modes, IE 11 identifying as       *)
(* others.                                                                 *)
(*   (/; *(?:XBLWP|ZuneWP)(\d+)/i.exec(ua) || 0)[1]                         *)
WindowsPhone ==
  /\ Running("WindowsPhone")
  /\ LET f == Top
         tag(s, i) == i + 1 + RunLen(s, i + 1, {" "})
         digitsFrom(ls, k) ==
           IF At(ls, k, "xblwp") THEN k + 5 ELSE IF At(ls, k, "zunewp") THEN k + 6 ELSE 0
         digitsAt(s, ls, i) == digitsFrom(ls, tag(s, i))
         zuneAt(s, ls, i) == IF i = 0 THEN UNDEFINED ELSE Run(s, digitsAt(s, ls, i), Digits)
         starts(s, ls, i, d) == Ch(s, i) = ";" /\ d > 0 /\ Ch(s, d) \in Digits
         zuneIn(s, ls) ==
           zuneAt(s, ls, Least({i \in 1..Len(s) : starts(s, ls, i, digitsAt(s, ls, i))}))
         zuneOf(s) == zuneIn(s, Lower(s))
         next(g) == [g EXCEPT !.pc = "Features"]
         rules(zune, rv) ==
           IF f.name = "IE" /\ Truthy(zune) THEN
             next([f EXCEPT !.name = @ \o " Mobile",
                            !.os = "Windows Phone " \o (IF EndsWith(zune, "+") THEN zune
                                                         ELSE zune \o ".x"),
                            !.description = <<"desktop mode">> \o @])
           ELSE IF WordCI(f.ua, "WPDesktop") THEN
             next([f EXCEPT !.name = "IE Mobile",
                            !.os = "Windows Phone 8.x",
                            !.description = <<"desktop mode">> \o @,
                            !.version = IF Truthy(@) THEN @
                                        ELSE IF rv = NULL THEN UNDEFINED ELSE rv])
           ELSE IF f.name # "IE" /\ LayoutStr(f.layout) = "Trident" /\ rv # NULL THEN
             next([f EXCEPT !.description =
                              IF Truthy(f.name)
                              THEN Append(@, "identifying as " \o f.name \o
                                             (IF Truthy(f.version) THEN " " \o f.version ELSE ""))
                              ELSE @,
                            !.name = "IE",
                            !.version = rv])
           ELSE next(f)
     IN  Step(rules(IF f.name = "IE" THEN zuneOf(Text(f.ua, f.tail)) ELSE UNDEFINED,
                    Capture(f.ua, "rv:", FALSE, DigitDot, FALSE, FALSE)))

(* Number.prototype.toFixed(1) of a whole number, without the ".0". *)
RECURSIVE IntToStr(_)
IntToStr(n) == IF n < 10 THEN Ch("0123456789", n + 1)
               ELSE IntToStr(n \div 10) \o Ch("0123456789", (n % 10) + 1)

(* Lines 1581-1659: the capability hints of the environment.  Lines         *)
(* 1584-1627 are the server-side environments (context.global is an        *)
(* object or a function).                                                  *)
(*   /[\d.]+/.exec(process.version)[0]                                      *)
Features ==
  /\ Running("Features")
  /\ LET f == Top
         c == f.context
         custom == f.isCustomContext
         mode == c["documentMode"]
         process == c["process"]
         java(g) ==
           IF g.java
           THEN [g EXCEPT !.arch = Answers.javaOSArch,
                          !.archIsUa = FALSE,
                          !.os = IF Truthy(@) THEN @
                                 ELSE Answers.javaOSName \o " " \o Answers.javaOSVersion]
           ELSE g
         named(g) == [g EXCEPT !.name = IF Truthy(@) THEN @ ELSE "Rhino"]
         shell(g) ==
           IF process = "electron"
           THEN [g EXCEPT !.description = Append(@, "Node " \o Answers.node),
                          !.name = "Electron",
                          !.version = Answers.electron]
           ELSE IF process = "nw"
           THEN [g EXCEPT !.description = @ \o <<"Chromium " \o Str(g.version),
                                                 "Node " \o Answers.node>>,
                          !.name = "NW.js",
                          !.version = Answers.nw]
           ELSE g
         digitDotRun(s, i) == IF i = 0 THEN NULL ELSE Run(s, i, DigitDot)
         node(g) ==
           IF ~Truthy(g.name)
           THEN [g EXCEPT !.name = "Node.js",
                          !.arch = IF process = "bare" THEN UNDEFINED ELSE Answers.nodeArch,
                          !.archIsUa = FALSE,
                          !.os = IF process = "bare" THEN UNDEFINED ELSE Answers.nodePlatform,
                          !.version =
                            IF process = "bare" THEN NULL
                            ELSE digitDotRun(Answers.nodeVersion,
                                             Least({i \in 1..Len(Answers.nodeVersion) :
                                                      Ch(Answers.nodeVersion, i) \in DigitDot}))]
           ELSE g
         hosted(g) ==
           IF f.rhino THEN
             IF c["require"] = "ringo"
             THEN named([g EXCEPT !.version = Answers.ringoVersion, !.name = "RingoJS"])
             ELSE IF c["system"] = "bare" THEN Throw(g)
             ELSE IF c["system"] = "narwhal"
             THEN named([g EXCEPT !.name = "Narwhal",
                                  !.os = IF Truthy(@) THEN @ ELSE Answers.narwhalOS])
             ELSE named(g)
           ELSE IF process \in {"absent", "browser"} THEN g
           ELSE IF process = "nullVersions" THEN Throw(g)
           ELSE node(shell(g))
         server == IF f.java /\ c["java"] = "bare" THEN Throw(f) ELSE hosted(java(f))
         next(g) == IF g.pc = "Threw" THEN g
                    ELSE [g EXCEPT !.os = IF Truthy(@) THEN format(@) ELSE @,
                                   !.pc = "Prerelease"]
         compatible(actual, compat) ==
           next([f EXCEPT !.description = IF compat THEN Append(@, "IE " \o mode \o " mode")
                                          ELSE @,
                          !.layout = IF compat /\ f.layout # <<>> THEN <<@[1], "">> ELSE @,
                          !.version = IF f.name = "IE" THEN IntToStr(actual) \o ".0" ELSE @])
         documentMode(actual) == compatible(actual, actual # ToInt(mode))
         rules(trident) ==
           IF ~f.useFeatures THEN [f EXCEPT !.pc = "Prerelease"]
           ELSE IF c["global"] = "yes" THEN next(server)
           ELSE IF (custom /\ c["runtime"] # "absent") \/ (~custom /\ c["runtime"] = "air") THEN
             IF c["runtime"] = "bare" THEN Throw([f EXCEPT !.name = "Adobe AIR"])
             ELSE next([f EXCEPT !.name = "Adobe AIR", !.os = Answers.airOS])
           ELSE IF (custom /\ c["phantom"] # "absent") \/ (~custom /\ c["phantom"] = "full") THEN
             next([f EXCEPT !.name = "PhantomJS",
                            !.version = IF c["phantom"] = "bare" THEN NULL
                                        ELSE Answers.phantomVersion])
           ELSE IF mode # "absent" /\ trident # NULL THEN documentMode(ToInt(trident) + 4)
           ELSE IF mode # "absent" /\
                   (WordAt(Str(f.name), 1, "Chrome") \/ WordAt(Str(f.name), 1, "Firefox")) THEN
             next([f EXCEPT !.description =
                              Append(@, "masking as " \o f.name \o " " \o Str(f.version)),
                            !.name = "IE",
                            !.version = "11.0",
                            !.layout = <<"Trident">>,
                            !.os = "Windows"])
           ELSE next(f)
     IN  Step(rules(Capture(f.ua, "Trident/", TRUE, Digits, FALSE, FALSE)))

(* Lines 1661-1665: the marker of a prerelease phase, NULL when the rule   *)
(* does not fire.                                                          *)
(*   /(?:[ab]|dp|pre|[ab]\d+pre)(?:\d+\+?)?$/i.exec(version)                *)
(*   /(?:alpha|beta)(?: ?\d)?/i.exec(ua)                                    *)
(*   /\bMinefield\b/i.test(ua) && 'a'                                       *)
PrereleaseData(f) ==
  LET tailEnds(lv, k, d) ==
        \/ k = Len(lv) + 1
        \/ d >= 1 /\ (k + d = Len(lv) + 1 \/ (Ch(lv, k + d) = "+" /\ k + d = Len(lv)))
      tailOk(lv, k) == tailEnds(lv, k, RunLen(lv, k, Digits))
      numbered(lv, i, d) ==
        IF Ch(lv, i) \in {"a", "b"} /\ d >= 1 /\ At(lv, i + 1 + d, "pre")
        THEN {i + 4 + d} ELSE {}
      headEnds(lv, i) ==
        (IF Ch(lv, i) \in {"a", "b"} THEN {i + 1} ELSE {}) \cup
        (IF At(lv, i, "dp") THEN {i + 2} ELSE {}) \cup
        (IF At(lv, i, "pre") THEN {i + 3} ELSE {}) \cup
        numbered(lv, i, RunLen(lv, i + 1, Digits))
      suffixAt(v, i) == IF i = 0 THEN NULL ELSE From(v, i)
      suffixIn(v, lv) ==
        suffixAt(v, Least({i \in 1..Len(lv) : \E k \in headEnds(lv, i) : tailOk(lv, k)}))
      suffix(v) == suffixIn(v, Lower(v))
      phaseLen(ls, i) == IF At(ls, i, "alpha") THEN 5 ELSE IF At(ls, i, "beta") THEN 4 ELSE 0
      phaseMore(s, k) ==
        IF Ch(s, k) = " " /\ Ch(s, k + 1) \in Digits THEN 2
        ELSE IF Ch(s, k) \in Digits THEN 1 ELSE 0
      phaseCut(s, i, k) == SubSeq(s, i, k + phaseMore(s, k) - 1)
      phaseAt(s, ls, i) == IF i = 0 THEN NULL ELSE phaseCut(s, i, i + phaseLen(ls, i))
      phaseIn(s, ls) == phaseAt(s, ls, Least({i \in 1..Len(s) : phaseLen(ls, i) > 0}))
      phaseWord(s) == phaseIn(s, Lower(s))
      choose(ending, word) ==
        IF ending # NULL THEN ending
        ELSE IF word # NULL THEN word
        ELSE IF WordCI(f.ua, "Minefield") THEN "a"
        ELSE NULL
  IN  IF ~Truthy(f.version) THEN NULL
      ELSE choose(suffix(f.version), phaseWord(Text(f.ua, f.tail)))

(* Lines 1661-1669: prerelease phases.                                     *)
(*   version.replace(RegExp(data + '\\+?$'), '')                            *)
(*   /\d+\+?/.exec(data) || ''                                              *)
Prerelease ==
  /\ Running("Prerelease")
  /\ LET f == Top
         dropPhase(v, data) ==
           IF EndsWith(v, data \o "+") THEN Upto(v, Len(v) - Len(data) - 1)
           ELSE IF EndsWith(v, data) THEN Upto(v, Len(v) - Len(data))
           ELSE v
         numberAt(data, i, n) ==
           IF i = 0 THEN ""
           ELSE SubSeq(data, i, i + n - 1) \o (IF Ch(data, i + n) = "+" THEN "+" ELSE "")
         numberFrom(data, i) == numberAt(data, i, RunLen(data, i, Digits))
         number(data) == numberFrom(data, Least({i \in 1..Len(data) : Ch(data, i) \in Digits}))
         staged(data, phase) ==
           [f EXCEPT !.prerelease = phase,
                     !.version = dropPhase(f.version, data) \o
                                 (IF phase = "beta" THEN f.beta ELSE f.alpha) \o number(data),
                     !.pc = "Mobile"]
         rules(data) ==
           IF data = NULL THEN [f EXCEPT !.pc = "Mobile"]
           ELSE staged(data, IF Contains(Lower(data), "b") THEN "beta" ELSE "alpha")
     IN  Step(rules(PrereleaseData(f)))

(* Where a match of product.replace(/ +/g, ' *') that starts at position i  *)
(* of ls ends, 0 when there is none.  The product names the tables give     *)
(* hold no RegExp operators.                                               *)
RECURSIVE SpacedEnd(_, _, _)
SpacedEnd(ls, i, p) ==
  IF p = "" THEN i
  ELSE IF Ch(p, 1) = " "
  THEN SpacedEnd(ls, i + RunLen(ls, i, {" "}), From(p, 1 + RunLen(p, 1, {" "})))
  ELSE IF Ch(ls, i) = Ch(p, 1) THEN SpacedEnd(ls, i + 1, From(p, 2))
  ELSE 0

(* An Opera rule that never parses the string again. *)
OperaNeverSuspect(f) == FALSE

(* The condition under which the Opera rule parses the string again        *)
(* (lines 1714-1723, up to the call).                                      *)
(*   /\bOS X (?:\d+\.){2,}/.test(os)                                        *)
OperaSuspect(f) ==
  LET patchAt(os, a, n1) ==
        n1 >= 1 /\ Ch(os, a + n1) = "." /\ RunLen(os, a + n1 + 1, Digits) >= 1 /\
        Ch(os, a + n1 + 1 + RunLen(os, a + n1 + 1, Digits)) = "."
      withPatch(os) ==
        \E i \in 1..Len(os) :
          WordStartAt(os, i, "OS X ") /\ patchAt(os, i + 5, RunLen(os, i + 5, Digits))
      suspect(os, v) ==
        /\ ~f.thisIsForOwn
        /\ f.product # "Wii"
        /\ \/ f.useFeatures /\ f.opera
           \/ Contains(Str(f.name), "Opera") /\ (WordCI(f.ua, "MSIE") \/ WordCI(f.ua, "Firefox"))
           \/ f.name = "Firefox" /\ withPatch(os)
           \/ /\ f.name = "IE"
              /\ \/ Truthy(f.os) /\ ~StartsWith(os, "Win") /\ v > 550
                 \/ HasWord(os, "Windows XP") /\ v > 800
                 \/ v = 800 /\ ~Word(f.ua, "Trident")
  IN  suspect(Str(f.os), ToNumber(f.version))

(* Lines 1671-1723 up to the nested call: the rules that are alternatives   *)
(* to the Opera rule, and the test of the Opera rule.                      *)
(*   version.replace(/\.[\d.]+/, '.x')                                      *)
(*   (RegExp(product.replace(/ +/g, ' *') + '/([.\\d]+)', 'i').exec(ua)     *)
(*    || 0)[1]                                                              *)
Mobile ==
  /\ Running("Mobile")
  /\ LET f == Top
         nameStr == Str(f.name)
         osStr == Str(f.os)
         done(g) == [g EXCEPT !.pc = "WebKit"]
         obscureAt(v, i) ==
           IF i = 0 THEN v
           ELSE Upto(v, i - 1) \o ".x" \o From(v, i + 1 + RunLen(v, i + 1, DigitDot))
         obscure(v) ==
           obscureAt(v, Least({i \in 1..Len(v) : Ch(v, i) = "." /\ Ch(v, i + 1) \in DigitDot}))
         slash(s, k) == k > 0 /\ Ch(s, k) = "/" /\ Ch(s, k + 1) \in DigitDot
         versionAt(s, ls, lp, i) ==
           IF i = 0 THEN UNDEFINED ELSE Run(s, SpacedEnd(ls, i, lp) + 1, DigitDot)
         versionIn(s, ls, lp) ==
           versionAt(s, ls, lp, Least({i \in 1..Len(s) : slash(s, SpacedEnd(ls, i, lp))}))
         productVersion(s, p) == versionIn(s, Lower(s), Lower(p))
         orVersion(v) == IF Truthy(v) THEN v ELSE f.version
         rules(bbVersion) ==
           IF f.name = "Fennec" \/
              (f.name = "Firefox" /\ (HasWord(osStr, "Android") \/ HasWord(osStr, "Firefox OS") \/
                                      HasWord(osStr, "KaiOS"))) THEN
             done([f EXCEPT !.name = "Firefox Mobile"])
           ELSE IF f.name = "Maxthon" /\ Truthy(f.version) THEN
             done([f EXCEPT !.version = obscure(@)])
           ELSE IF HasWord(Lower(Str(f.product)), "xbox") THEN
             done([f EXCEPT !.os = IF f.product = "Xbox 360" THEN NULL ELSE @,
                            !.description = IF f.product = "Xbox 360" /\ Word(f.ua, "IEMobile")
                                            THEN <<"mobile mode">> \o @ ELSE @])
           ELSE IF /\ \/ f.name \in {"Chrome", "IE", "Opera"}
                      \/ Truthy(f.name) /\ ~Truthy(f.product) /\
                         ~Contains(nameStr, "Browser") /\ ~Contains(nameStr, "Mobi")
                   /\ (f.os = "Windows CE" \/ HasCI(f.ua, "Mobi")) THEN
             done([f EXCEPT !.name = @ \o " Mobile"])
           ELSE IF f.name = "IE" /\ f.useFeatures THEN
             done([f EXCEPT !.description =
                              IF f.context["external"] = "null" THEN <<"platform preview">> \o @
                              ELSE IF f.context["external"] = "throws" THEN <<"embedded">> \o @
                              ELSE @])
           ELSE IF f.product \in {NULL, UNDEFINED} /\ Word(f.ua, "BB10") THEN Throw(f)
           ELSE IF (HasWord(Str(f.product), "BlackBerry") \/ Word(f.ua, "BB10")) /\
                   Truthy(bbVersion) THEN
             done([f EXCEPT !.os = (IF Has(f.ua, "BB10") THEN "BlackBerry"
                                    ELSE "Device Software") \o " " \o bbVersion,
                            !.product = IF Has(f.ua, "BB10") THEN NULL ELSE @,
                            !.manufacturer = IF Has(f.ua, "BB10") THEN "BlackBerry" ELSE @,
                            !.version = NULL])
           ELSE [f EXCEPT !.pc = "Opera"]
         settle(g) == IF g.pc = "Opera" /\ ~OperaSuspect(g) THEN done(g) ELSE g
     IN  Step(settle(rules(orVersion(productVersion(Text(f.ua, f.tail), f.product)))))

(* Line 1723: parse.call(forOwn, ua.replace(reOpera, '') + ';'). *)
OperaCall ==
  /\ Running("Opera")
  /\ Call("AwaitOpera",
          Without(Top.ua, [i \in DOMAIN Top.ua |-> StripOpera(Top.ua[i])]),
          TRUE, Top.tail \o ";")

(* operaClass.replace(/([a-z])([A-Z])/g, '$1 $2') *)
RECURSIVE SplitCamel(_)
SplitCamel(s) ==
  IF Len(s) < 2 THEN s
  ELSE IF Ch(s, 1) \in LowerLetters /\ Ch(s, 2) \in UpperLetters
  THEN Ch(s, 1) \o " " \o Ch(s, 2) \o SplitCamel(From(s, 3))
  ELSE Ch(s, 1) \o SplitCamel(From(s, 2))

(* The Opera rule handing the invocation back to the rules before it. *)
OperaReturnAgain(f, data) == [f EXCEPT !.pc = "Mobile"]

(* Lines 1724-1748: what the Opera rule does with the platform the nested   *)
(* parse returned.                                                         *)
OperaReturn(f, data) ==
  LET identifying == reOperaTest(Str(f.name))
      clearOS(text) == HasWord(text, "IE") /\ (~identifying \/ f.os = "Mac OS")
      noted(text) ==
        [f EXCEPT !.os = IF clearOS(text) THEN NULL ELSE @,
                  !.name = IF identifying THEN @
                           ELSE IF Truthy(f.operaClass) THEN format(SplitCamel(f.operaClass))
                           ELSE "Opera",
                  !.version = IF ~identifying /\ ~f.useFeatures THEN NULL ELSE @,
                  !.layout = <<"Presto">>,
                  !.description = Append(@, text),
                  !.pc = "WebKit"]
  IN  IF reOperaTest(data.render) \/ ~Truthy(data.name) THEN [f EXCEPT !.pc = "WebKit"]
      ELSE noted((IF identifying THEN "identify" ELSE "mask") \o "ing as " \o data.name \o
                 (IF Truthy(data.version) THEN " " \o data.version ELSE ""))

OperaReturned ==
  /\ Running("Record") /\ Len(stack) > 1 /\ Caller.pc = "AwaitOpera"
  /\ LET back(data) == Return([OperaReturn(Caller, data) EXCEPT !.returned = data])
     IN  back(PlatformOf(Top))

(* The ladder of Safari versions (line 1778), by WebKit build in            *)
(* hundredths.  A number n reads "n", the strings read as written.          *)
SafariLadder ==
  <<<<40000, "1">>, <<50000, "2">>, <<52600, "3">>, <<53300, "4">>, <<53400, "4+">>,
    <<53500, "5">>, <<53700, "6">>, <<53800, "7">>, <<60100, "8">>, <<60200, "9">>,
    <<60400, "10">>, <<60600, "11">>, <<60800, "12">>>>

(* A ladder with two thresholds out of order. *)
ChromeLadderUnordered ==
  <<<<53000, "1">>, <<53200, "2">>, <<53205, "3">>, <<53300, "4">>, <<53407, "5">>,
    <<53403, "6">>, <<53410, "7">>, <<53413, "8">>, <<53416, "9">>, <<53424, "10">>,
    <<53430, "11">>, <<53501, "12">>, <<53502, "13+">>, <<53507, "15">>, <<53511, "16">>,
    <<53519, "17">>, <<53605, "18">>, <<53610, "19">>, <<53701, "20">>, <<53711, "21+">>,
    <<53713, "23">>, <<53718, "24">>, <<53724, "25">>, <<53736, "26">>>>

(* The ladder of Chrome versions (line 1781). *)
ChromeLadder ==
  <<<<53000, "1">>, <<53200, "2">>, <<53205, "3">>, <<53300, "4">>, <<53403, "5">>,
    <<53407, "6">>, <<53410, "7">>, <<53413, "8">>, <<53416, "9">>, <<53424, "10">>,
    <<53430, "11">>, <<53501, "12">>, <<53502, "13+">>, <<53507, "15">>, <<53511, "16">>,
    <<53519, "17">>, <<53605, "18">>, <<53610, "19">>, <<53701, "20">>, <<53711, "21+">>,
    <<53713, "23">>, <<53718, "24">>, <<53724, "25">>, <<53736, "26">>>>

(* data < T1 ? b1 : data < T2 ? b2 : ... : last (lines 1778, 1781): the     *)
(* first rung whose threshold the build is below, 0 for the final else.    *)
rung(ladder, build) ==
  IF build = NaN THEN 0 ELSE Least({k \in DOMAIN ladder : build < ladder[k][1]})

(* Lines 1751-1789: WebKit Nightly, approximate Chrome and Safari versions. *)
(*   (/\bAppleWebKit\/([\d.]+\+?)/i.exec(ua) || 0)[1]                       *)
(*   data.replace(/\.(\d)$/, '.0$1')                                        *)
(*   (/\bSafari\/([\d.]+\+?)/i.exec(ua) || 0)[1]                            *)
(*   (/\b(?:Headless)?Chrome\/([\d.]+)/i.exec(ua) || 0)[1]                  *)
WebKit ==
  /\ Running("WebKit")
  /\ LET f == Top
         padBuild(s) ==
           IF Ch(s, Len(s) - 1) = "." /\ Ch(s, Len(s)) \in Digits
           THEN Upto(s, Len(s) - 1) \o "0" \o Ch(s, Len(s)) ELSE s
         tagLen(lt, i) ==
           IF WordStartAt(lt, i, "headlesschrome/") THEN 15
           ELSE IF WordStartAt(lt, i, "chrome/") THEN 7 ELSE 0
         tagAt(t, lt, i) == IF i = 0 THEN NULL ELSE Run(t, i + tagLen(lt, i), DigitDot)
         tagIn(t, lt) ==
           tagAt(t, lt, Least({i \in 1..Len(t) :
                                 tagLen(lt, i) > 0 /\ Ch(t, i + tagLen(lt, i)) \in DigitDot}))
         chromeTag(t) == tagIn(t, Lower(t))
         nightly(w) == f.name = "Safari" /\ EndsWith(w, "+")
         same(w) == ~nightly(w) /\ LooseEq(f.version, w)
         safari(w, s) == IF nightly(w) \/ same(w) \/ s = NULL THEN UNDEFINED ELSE s
         cleared(w, s) ==
           IF nightly(w) THEN Upto(w, Len(w) - 1)
           ELSE IF same(w) \/ LooseEq(f.version, s) THEN NULL
           ELSE f.version
         blink(build, s, chrome) ==
           build = 53736 /\ s # UNDEFINED /\ ToNumber(s) = 53736 /\
           chrome # NULL /\ parseFloat(chrome) >= 2800 /\ LayoutStr(f.layout) = "WebKit"
         engine(b) == IF b THEN <<"Blink">> ELSE f.layout
         likeSafari(chrome) == ~f.useFeatures \/ (~f.likeChrome /\ ~Truthy(chrome))
         marked(layout) == IF layout = <<>> THEN layout ELSE <<layout[1], "like Chrome">>
         guess(layout, like, chrome, s, c) ==
           IF like THEN (IF s = 0 THEN "12" ELSE SafariLadder[s][2])
           ELSE IF Truthy(chrome) THEN chrome
           ELSE IF c = 0 THEN (IF LayoutStr(marked(layout)) # "Blink" THEN "27" ELSE "28")
           ELSE ChromeLadder[c][2]
         isNumber(like, chrome, s, c) ==
           IF like THEN s # 0 /\ s # 5
           ELSE ~Truthy(chrome) /\ c # 0 /\ c \notin {13, 20}
         approximate(version, number) ==
           IF number THEN version \o ".x"
           ELSE IF Contains(version, ".") \/ Contains(version, "+") THEN version
           ELSE version \o "+"
         postfixed(layout, version, number) ==
           IF layout = <<>> THEN version ELSE approximate(version, number)
         obscured(w, v) ==
           f.name = "Safari" /\ ~nightly(w) /\ (~Truthy(v) \/ parseInt(v) > 4500)
         final(w, v, layout, like, data) ==
           [f EXCEPT !.name = IF nightly(w) THEN "WebKit Nightly" ELSE @,
                     !.prerelease = IF nightly(w) THEN "alpha" ELSE @,
                     !.layout = IF layout = <<>> THEN layout
                                ELSE <<layout[1],
                                       (IF like THEN "like Safari" ELSE "like Chrome")
                                       \o " " \o data>>,
                     !.version = IF obscured(w, v) THEN data ELSE v,
                     !.description = IF f.name = "Chrome" /\ WordStartCI(f.ua, "HeadlessChrome")
                                     THEN <<"headless">> \o @ ELSE @,
                     !.pc = "Desktop"]
         guessed(w, v, layout, like, chrome, s, c) ==
           final(w, v, layout, like,
                 postfixed(layout, guess(layout, like, chrome, s, c), isNumber(like, chrome, s, c)))
         laddered(w, v, layout, chrome, build) ==
           guessed(w, v, layout, likeSafari(chrome), chrome,
                   rung(SafariLadder, build), rung(ChromeLadder, build))
         built(w, s, chrome, build) ==
           laddered(w, cleared(w, s), engine(blink(build, s, chrome)), chrome, build)
         rules(w, s, chrome) ==
           IF w = NULL THEN [f EXCEPT !.pc = "Desktop"]
           ELSE built(w, safari(w, s), chrome, parseFloat(padBuild(w)))
     IN  Step(rules(Capture(f.ua, "AppleWebKit/", TRUE, DigitDot, TRUE, FALSE),
                    Capture(f.ua, "Safari/", TRUE, DigitDot, TRUE, FALSE),
                    Exec([i \in DOMAIN f.ua |-> chromeTag(f.ua[i])])))

(* Lines 1791-1818: Opera and Chrome desktop modes, SRWare Iron.           *)
(*   /\bzbov|zvav$/.exec(os)                                                *)
(*   os.replace(RegExp(' *' + data + '$'), '')                              *)
Desktop ==
  /\ Running("Desktop")
  /\ LET f == Top
         osStr == Str(f.os)
         detail == IF Len(f.layout) >= 2 THEN f.layout[2] ELSE "undefined"
         next(g) == [g EXCEPT !.pc = "OSFix"]
         cut(s) == Upto(s, Len(s) - TrailLen(s, {" "}))
         dropTag(os, tag) == IF EndsWith(os, tag) THEN cut(Upto(os, Len(os) - Len(tag))) ELSE os
         rules(tag) ==
           IF f.name = "Opera" /\ tag # NULL THEN
             next([f EXCEPT !.name = IF tag = "zvav" THEN "Opera Mini" ELSE "Opera Mobile",
                            !.description = <<"desktop mode">> \o @,
                            !.version = IF tag = "zvav" THEN NULL ELSE @,
                            !.os = dropTag(osStr, tag)])
           ELSE IF f.name = "Safari" /\ f.layout # <<>> /\ HasWord(detail, "Chrome") THEN
             next([f EXCEPT !.description = <<"desktop mode">> \o @,
                            !.name = "Chrome Mobile",
                            !.version = NULL,
                            !.manufacturer = IF HasWord(osStr, "OS X") THEN "Apple" ELSE @,
                            !.os = IF HasWord(osStr, "OS X") THEN "iOS 4.3+" ELSE NULL])
           ELSE IF HasWord(Str(f.name), "SRWare Iron") /\ ~Truthy(f.version) THEN
             next([f EXCEPT !.version = getVersionChars(f.ua, f.tail, "Chrome")])
           ELSE next(f)
     IN  Step(rules(IF HasWordStart(osStr, "zbov") THEN "zbov"
                    ELSE IF EndsWith(osStr, "zvav") THEN "zvav" ELSE NULL))

(* Lines 1820-1827: OS versions that are the browser's, OS names that hold  *)
(* the browser's name.                                                     *)
(*   /[\d.]+$/.exec(os)                                                     *)
(*   os.replace(RegExp(' *' + qualify(name) + ' *'), ''): the browser names *)
(*   hold no RegExp operators but the dot.                                  *)
OSFix ==
  /\ Running("OSFix")
  /\ LET f == Top
         osStr == Str(f.os)
         orNull(run) == IF run = "" THEN "null" ELSE run
         stripped(data) ==
           IF Truthy(f.version) /\ StartsWith(f.version, data) /\
              Contains(Text(f.ua, f.tail), "/" \o data \o "-")
           THEN trim(ReplaceFirst(osStr, data, "")) ELSE f.os
         dropFrom(os, i, b) == Upto(os, i - 1) \o From(os, b + RunLen(os, b, {" "}))
         dropAt(os, name, i, a) ==
           IF i = 0 THEN os ELSE dropFrom(os, i, a + QLen(os, a, name))
         dropName(os, name, i) == dropAt(os, name, i, i + RunLen(os, i, {" "}))
         unnamed(os, name) ==
           IF Truthy(os) /\ Contains(os, name) /\ ~Contains(os, name \o " OS")
           THEN dropName(os, name,
                         Least({i \in 1..Len(os) : QLen(os, i + RunLen(os, i, {" "}), name) >= 0}))
           ELSE os
     IN  Step([f EXCEPT
                 !.os = unnamed(stripped(orNull(From(osStr, Len(osStr) - TrailLen(osStr, DigitDot) + 1))),
                                Str(f.name)),
                 !.pc = "Describe"])

(* A group of the first note alone. *)
GroupFirst(notes) == IF notes # <<>> THEN <<"(" \o notes[1] \o ")">> ELSE notes

(* A group without its parentheses. *)
GroupBare(notes) == IF notes # <<>> THEN <<Join(notes, "; ")>> ELSE notes

(* Lines 1836-1838: description = ['(' + description.join('; ') + ')'].    *)
Group(notes) == IF notes # <<>> THEN <<"(" \o Join(notes, "; ") \o ")">> ELSE notes

(* Lines 1829-1847: the layout engine joins the notes, the notes become    *)
(* one group, then manufacturer and product follow.                        *)
(*   /^(?:Adobe|Arora|Breach|Midori|Opera|Phantom|Rekonq|Rock|Samsung      *)
(*   Internet|Sleipnir|SRWare Iron|Vivaldi|Web)/.test(name)                 *)
Describe ==
  /\ Running("Describe")
  /\ LET f == Top
         nameStr == Str(f.name)
         detail == IF Len(f.layout) >= 2 THEN f.layout[2] ELSE UNDEFINED
         last == IF f.layout = <<>> THEN NULL ELSE f.layout[Len(f.layout)]
         noted == {"Adobe", "Arora", "Breach", "Midori", "Opera", "Phantom", "Rekonq", "Rock",
                   "Samsung Internet", "Sleipnir", "SRWare Iron", "Vivaldi", "Web"}
         engine ==
           /\ f.layout # <<>>
           /\ ~HasWord(nameStr, "Avant") /\ ~HasWord(nameStr, "Nook")
           /\ \/ Contains(nameStr, "Browser") \/ Contains(nameStr, "Lunascape")
                 \/ Contains(nameStr, "Maxthon")
              \/ f.name # "Safari" /\ StartsWith(Str(f.os), "iOS") /\
                 HasWord(Str(detail), "Safari")
              \/ (\E p \in noted : StartsWith(nameStr, p)) /\ Truthy(detail)
         made(d) ==
           IF Truthy(f.manufacturer) /\ Truthy(f.product) /\ ~Contains(f.product, f.manufacturer)
           THEN Append(d, "on " \o f.manufacturer) ELSE d
         on(d) ==
           IF Truthy(f.product)
           THEN Append(d, (IF d # <<>> /\ StartsWith(d[Len(d)], "on ") THEN "" ELSE "on ")
                          \o f.product)
           ELSE d
         described(notes) ==
           [f EXCEPT !.description = on(made(Group(notes))), !.notes = notes, !.pc = "OSObject"]
     IN  Step(described(IF engine /\ Truthy(last) THEN Append(f.description, last)
                        ELSE f.description))

(* Lines 1849-1881: the OS becomes an object, and the architecture is read  *)
(* from arch (the identification string unless a hint replaced it).        *)
(*   / ([\d.+]+)$/.exec(os)                                                 *)
(*   /\b(?:AMD|IA|Win|WOW|x86_|x)64\b/i.exec(arch)                          *)
(*   os.family.replace(RegExp(' *' + data), '')                             *)
OSObject ==
  /\ Running("OSObject")
  /\ LET f == Top
         hasOS == Truthy(f.os)
         versionTail(os, n) ==
           IF n >= 1 /\ Ch(os, Len(os) - n) = " " THEN From(os, Len(os) - n + 1) ELSE NULL
         isSpecial(v) == v # NULL /\ Ch(f.os, Len(f.os) - Len(v) - 1) = "/"
         familyOf(v, special) ==
           IF v # NULL /\ ~special THEN ReplaceFirst(f.os, " " \o v, "") ELSE f.os
         i686 == IF f.archIsUa THEN WordCI(f.ua, "i686") ELSE HasWord(Lower(Str(f.arch)), "i686")
         dropAt(family, token, i) ==
           IF i = 0 THEN family
           ELSE Upto(family, i - 1) \o From(family, i + RunLen(family, i, {" "}) + Len(token))
         dropToken(family, token) ==
           dropAt(family, token,
                  Least({i \in 1..Len(family) : At(family, i + RunLen(family, i, {" "}), token)}))
         chrome64(family) ==
           hasOS /\ StartsWith(family, "OS X") /\ f.name = "Chrome" /\
           parseFloat(Str(f.version)) >= 3900
         object(v, special, family, token, is64) ==
           [f EXCEPT !.hasOS = hasOS,
                     !.osFamily = IF ~hasOS THEN NULL
                                  ELSE IF is64 THEN dropToken(family, token) ELSE family,
                     !.osVersion = v,
                     !.isSpecialCasedOS = special,
                     !.osArchitecture = Architecture(hasOS, is64 \/ chrome64(family)),
                     !.description = IF is64 /\ Truthy(f.name) /\ WordCI(f.ua, "WOW64")
                                     THEN <<"32-bit">> \o @ ELSE @,
                     !.bitNote = is64 /\ Truthy(f.name) /\ WordCI(f.ua, "WOW64"),
                     !.pc = "Record"]
         read(v, special, token) ==
           object(v, special, familyOf(v, special), token, token # NULL /\ ~i686)
         versioned(v) ==
           read(v, isSpecial(v),
                IF f.archIsUa THEN Exec([i \in DOMAIN f.ua |-> ArchToken(f.ua[i])])
                ELSE ArchToken(Str(f.arch)))
     IN  Step(versioned(IF hasOS THEN versionTail(f.os, TrailLen(f.os, DigitDot \cup {"+"}))
                        ELSE NULL))

(* The top-level invocation returns its platform object. *)
Finish ==
  /\ Running("Record") /\ Len(stack) = 1
  /\ stack' = <<>>
  /\ outcome' = [status |-> "returned", platform |-> PlatformOf(Top)]
  /\ UNCHANGED <<ambient, input, calls, prev>>

(* A TypeError is caught nowhere: it ends every invocation on the stack. *)
Raise ==
  /\ Running("Threw")
  /\ stack' = <<>>
  /\ outcome' = [status |-> "threw", platform |-> NoRecord]
  /\ UNCHANGED <<ambient, input, calls, prev>>

(* platform.parse is called again with the same input. *)
Reinvoke ==
  /\ stack = <<>> /\ calls < MaxCalls
  /\ stack' = <<NewFrame(input, FALSE, "", ambient)>>
  /\ prev' = outcome
  /\ outcome' = NoOutcome
  /\ calls' = calls + 1
  /\ UNCHANGED <<ambient, input>>

Next ==
  \/ Match \/ Product \/ IEMobileCall \/ IEMobileReturn \/ Mode \/ Version \/ Layout
  \/ WindowsPhone \/ Features \/ Prerelease \/ Mobile \/ OperaCall \/ OperaReturned
  \/ WebKit \/ Desktop \/ OSFix \/ Describe \/ OSObject \/ Finish \/ Raise \/ Reinvoke

Spec == Init /\ [][Next]_vars

(* A step of parse, whichever statement it runs: the stack of invocations  *)
(* is not empty and changes.  A new call by the embedder starts from the   *)
(* empty stack.                                                            *)
ParseStep == stack # <<>> /\ stack' # stack

(* The conditions under which parse can take a step, from the guards of    *)
(* its steps: the innermost invocation stands before one of its stages, or *)
(* has its platform object ready and a caller that awaits it, or none.     *)
CanStep ==
  /\ stack # <<>>
  /\ \/ Top.pc \in {"Match", "Product", "Mode", "Version", "Layout", "WindowsPhone",
                    "Features", "Prerelease", "Mobile", "Opera", "WebKit", "Desktop",
                    "OSFix", "Describe", "OSObject", "Threw"}
     \/ Top.pc = "Record" /\ Len(stack) = 1
     \/ Top.pc = "Record" /\ Len(stack) > 1 /\ Caller.pc \in {"AwaitIEMobile", "AwaitOpera"}

(* parse is synchronous code: an invocation that can take a step takes it. *)
(* This is weak fairness of ParseStep, with ENABLED <<ParseStep>>_vars     *)
(* written as the state predicate CanStep: TLC evaluates ENABLED of a step *)
(* without sharing intermediate results, which the steps that match and    *)
(* format strings do not allow.                                            *)
LiveSpec == Spec /\ ([]<>(~CanStep) \/ []<><<ParseStep>>_vars)
(* ---------------------------------------------------------------------- *)
(* Properties                                                              *)
(* ---------------------------------------------------------------------- *)

Returned == outcome.status = "returned"
Threw == outcome.status = "threw"
Platform == outcome.platform

(* C1: parse is total on string input: whatever the identification string  *)
(* (the empty string and no argument included, nested parses included),    *)
(* the invocation never throws.                                            *)
TotalOnStrings == input.kind \in {"string", "undefined"} => ~Threw

(* C2: given a context object, parse never throws, whatever hints the      *)
(* context carries and whatever sub-properties they lack.                  *)
TotalOnContexts == input.kind = "context" => ~Threw

(* C3: on every axis the matcher resolves to the matching entry that is    *)
(* declared first, wherever and however long the matches in the string     *)
(* are, and to null when no entry matches.  The locals are read right      *)
(* after the matchers ran.                                                 *)
FirstMatchWins ==
  \A d \in DOMAIN stack :
    stack[d].pc = "Product" =>
      LET f == stack[d]
          first(hits) == Least(Matching(f.ua, hits))
          layout(k) == IF k = 0 THEN <<>> ELSE <<LayoutTable[k].label>>
          product(k) ==
            IF k = 0 THEN NULL ELSE ProductResult(Text(f.ua, f.tail), ProductTable[k])
          maker(k) == IF k = 0 THEN NULL ELSE ManufacturerTable[k].key
      IN  /\ f.layout = layout(first(LayoutHits))
          /\ f.name = LabelOf(NameTable, first(NameHits))
          /\ f.product = product(first(ProductHits))
          /\ f.manufacturer =
               maker(Least(ManufacturerMatching(f.ua, f.product, ManufacturerTable)))
          /\ f.os = OSResult(f.ua, first(OSHits))

(* Safari stands first in the string, Chrome is declared first: Chrome wins. *)
FirstMatchWinsWitness ==
  /\ stack # <<>> /\ Top.pc = "Product"
  /\ Top.ua = <<"Safari/537.36", "Chrome/70.0">>
  /\ Top.name = "Chrome"

(* C4: in every platform object parse returns, to the caller or to an      *)
(* enclosing parse, version is null whenever name is null.                 *)
NoVersionWithoutName ==
  /\ Returned /\ Platform.name = NULL => Platform.version = NULL
  /\ \A d \in DOMAIN stack : stack[d].returned.name = NULL => stack[d].returned.version = NULL

(* "Version/5.0" names no browser but carries a version. *)
NoVersionWithoutNameWitness ==
  /\ Returned /\ input = StringInput(<<"Version/5.0">>)
  /\ Platform.name = NULL /\ Platform.version = NULL

(* What counts as evidence of a 64-bit architecture: a 64-bit token in the  *)
(* string that was parsed or in the architecture a hint reports, or Chrome  *)
(* on OS X.                                                                *)
Evidence64 ==
  \/ ArchToken(Str(Platform.ua)) # NULL
  \/ input.kind = "context" /\ input.ctx["global"] = "yes" /\
     (input.ctx["java"] = "full" \/ input.ctx["process"] = "node")
  \/ Platform.name = "Chrome" /\ StartsWith(Str(Platform.osFamily), "OS X")

AtMostOneNestedParse == Len(stack) <= 2

(* The fields of a platform object that C7 compares. *)
Fields(p) ==
  <<p.layout, p.manufacturer, p.name, p.prerelease, p.product, p.ua, p.version,
    p.osFamily, p.osVersion, p.osArchitecture, p.description>>

Unresolved(p) ==
  /\ p.name = NULL /\ p.version = NULL /\ p.product = NULL /\ p.manufacturer = NULL
  /\ p.osFamily = NULL /\ p.notes = <<>>

(* C9 as stated: the platform object renders as its description, and as     *)
(* the empty string whenever no field was resolved.                        *)
UnresolvedRendersEmpty ==
  Returned =>
    /\ Platform.description # NULL => Platform.render = Platform.description
    /\ Unresolved(Platform) => Platform.render = ""

(* C9: the platform object renders as its description, and as the empty     *)
(* string when the description is null; when no field was resolved the      *)
(* description is the string that was parsed, null if that was empty.       *)
UnresolvedRendersInput ==
  Returned =>
    /\ Platform.description # NULL => Platform.render = Platform.description
    /\ Platform.description = NULL => Platform.render = ""
    /\ Unresolved(Platform) => Platform.description = Platform.ua

UnresolvedWitness ==
  /\ Returned /\ input = StringInput(<<"xyz">>) /\ ambient = EmptyContext
  /\ Unresolved(Platform) /\ Platform.render = "xyz"

(* The non-empty segments of a description, given in order. *)
Segments(parts) == SelectSeq(parts, LAMBDA x : Truthy(x))

(* The OS segment of a description: "(os)" after a product, else "on os";   *)
(* none when the name is null, the OS unresolved, or the OS one word that   *)
(* is the first word of the name or follows a product.                     *)
OSSegment(p) ==
  LET space == IndexOf(p.name, " ")
      first == IF space = 0 THEN p.name ELSE Upto(p.name, space - 1)
  IN  IF p.osFamily = NULL \/ ~Truthy(p.name) THEN ""
      ELSE IF ~Contains(p.osString, " ") /\ (p.osString = first \/ Truthy(p.product)) THEN ""
      ELSE IF Truthy(p.product) THEN "(" \o p.osString \o ")"
      ELSE "on " \o p.osString

NoteGroup(p) == IF p.notes = <<>> THEN "" ELSE "(" \o Join(p.notes, "; ") \o ")"

(* The description made of the given parts: the non-empty ones joined by   *)
(* spaces, and the string that was parsed when there is none.              *)
Composed(parts, ua) ==
  IF Segments(parts) = <<>> THEN ua ELSE Join(Segments(parts), " ")

(* C10 as stated: the description is the note group, version, name,         *)
(* 'on manufacturer', 'on product' and the OS segment, joined by spaces.    *)
DescriptionInStatedOrder ==
  Returned =>
    Platform.description =
      Composed(<<NoteGroup(Platform), Platform.version, Platform.name,
                 IF Truthy(Platform.manufacturer) THEN "on " \o Platform.manufacturer
                 ELSE "",
                 IF Truthy(Platform.product) THEN "on " \o Platform.product ELSE "",
                 OSSegment(Platform)>>, Platform.ua)

(* C10: the description is, joined by spaces: name, version, the note       *)
(* '32-bit', the note group, 'on manufacturer' (when there is a product     *)
(* that does not hold the manufacturer's name), the product (after 'on '    *)
(* unless it follows the manufacturer), and the OS segment.                *)
DescriptionInOrder ==
  Returned =>
    LET p == Platform
        maker == Truthy(p.manufacturer) /\ Truthy(p.product) /\
                 ~Contains(p.product, p.manufacturer)
    IN  p.description =
          Composed(<<p.name, p.version,
                     IF p.bitNote THEN "32-bit" ELSE "",
                     NoteGroup(p),
                     IF maker THEN "on " \o p.manufacturer ELSE "",
                     IF ~Truthy(p.product) THEN ""
                     ELSE IF maker THEN p.product ELSE "on " \o p.product,
                     OSSegment(p)>>, p.ua)

(* Name, version, the note '32-bit', the note group and the OS at once. *)
DescriptionWitness ==
  /\ Returned
  /\ Platform.description =
       "Opera 9.80 32-bit (identifying as IE 9.0) on Windows Server 2008 R2 / 7 64-bit"


(* The names that cleanupOS gives the Windows kernel versions 6.1, 6.0 and  *)
(* 5.2: two editions joined by a slash.                                    *)
DualNames == {"Windows " \o WindowsNames[k] : k \in {"6.1", "6.0", "5.2"}}

(* C11: when the OS matcher resolves a string to a dual edition name,       *)
(* os.family of the platform object is exactly that name.                  *)
DualNameKept ==
  Returned /\ input.kind = "string" /\ getOS(input.ua) \in DualNames =>
    Platform.osFamily = getOS(input.ua)

(* The string was given to parse as such and is not the one the ambient     *)
(* context reports, so no capability hint is consulted.                    *)
PlainString == input.kind = "string" /\ input.ua # <<>> /\ input.ua # AgentUA[ambient["agent"]]

OperaMarked(ua) == \E i \in DOMAIN ua : reOperaTest(ua[i])

(* The platform object carries a note that starts with text. *)
Noted(text) == \E i \in DOMAIN Platform.notes : StartsWith(Platform.notes[i], text)

ModelCodeVendor ==
  Returned /\ PlainString /\ StartsWith(Str(getOS(input.ua)), "Android") =>
    LET vendor == getProduct(input.ua, "", ModelCodeTable, ModelCodeHits)
    IN  vendor # NULL => Platform.manufacturer = vendor

(* A string with 64-bit Windows tokens, an AppleWebKit token and a Chrome   *)
(* version token.                                                          *)
ChromeOnWindows64(ua) ==
  /\ StartsWith(Str(getOS(ua)), "Windows") /\ (WordCI(ua, "Win64") \/ WordCI(ua, "WOW64"))
  /\ WordCI(ua, "AppleWebKit") /\ Capture(ua, "Chrome/", TRUE, DigitDot, FALSE, FALSE) # NULL

MarkerOf(ua, e) == Len(ua) = 1 /\ \E a \in DOMAIN e.alts : ua[1] = e.alts[a]

(* C15: every entry of the layout, name and product tables is reachable:   *)
(* the subject made of an entry's marker alone resolves to that entry's    *)
(* label, so no entry is shadowed by an earlier one whose pattern is the   *)
(* same or a prefix of its own.  The locals are read right after the       *)
(* matchers ran.                                                           *)
EveryEntryReachable ==
  \A d \in DOMAIN stack :
    stack[d].pc = "Product" =>
      LET f == stack[d]
      IN  /\ \A k \in DOMAIN LayoutTable :
               MarkerOf(f.ua, LayoutTable[k]) => f.layout = <<LayoutTable[k].label>>
          /\ \A k \in DOMAIN NameTable :
               MarkerOf(f.ua, NameTable[k]) => f.name = NameTable[k].label
          /\ \A k \in DOMAIN ProductTable :
               MarkerOf(f.ua, ProductTable[k]) => f.product = ProductTable[k].label

(* One step leaves every platform object that was returned before it as it *)
(* was: the object of the invocation before (replaced only when parse is   *)
(* called anew), the object of the last invocation, the object a nested    *)
(* parse handed to its caller (data is bound to another object only when   *)
(* a nested parse returns), and the locals of every invocation that waits  *)
(* for a nested parse.                                                     *)
ReturnedRecordsKept ==
  /\ prev' # prev => stack = <<>> /\ prev' = outcome
  /\ Returned /\ outcome' # outcome => stack = <<>> /\ stack' # <<>>
  /\ \A d \in DOMAIN stack \cap DOMAIN stack' :
       /\ stack'[d].returned # stack[d].returned =>
            Len(stack) = d + 1 /\ Len(stack') = d /\ stack'[d].returned = PlatformOf(Top)
       /\ d < Len(stack) /\ d < Len(stack') => stack'[d] = stack[d]

VersionStringOrNull ==
  /\ Returned => Platform.version \notin {UNDEFINED, FALSEV}
  /\ \A d \in DOMAIN stack :
       stack[d].returned # NoRecord => stack[d].returned.version \notin {UNDEFINED, FALSEV}

(* The length of the string an invocation parses. *)
TextLen(f) == Len(Text(f.ua, f.tail))

(* Every invocation that was started returns or throws. *)
ParseEnds == (stack # <<>>) ~> (stack = <<>>)

(* Every nested parse is given a string shorter than its caller's. *)
NestedOnShorter == \A d \in 2..Len(stack) : TextLen(stack[d]) < TextLen(stack[d - 1])

(* C18 as stated: every invocation terminates, each nested parse being     *)
(* started on a strictly shorter string than its caller's.                 *)
TerminatesOnShorterStrings == []NestedOnShorter /\ ParseEnds

(* What bounds the chain of nested parses: the parse of the IE Mobile 11   *)
(* rule is given a string shorter by the 14 characters of "like iPhone OS";*)
(* the parse of the Opera rule is given the string with its first "Opera"  *)
(* removed, if there is one, and ";" appended (longer by one when there is *)
(* none), and runs with this = forOwn, under which the Opera rule starts   *)
(* no parse.                                                               *)
NestedBounded ==
  \A d \in DOMAIN stack :
    LET n == stack[d]
        under(c) ==
          /\ c.pc \in {"AwaitIEMobile", "AwaitOpera"}
          /\ c.pc = "AwaitIEMobile" => TextLen(n) = TextLen(c) - 14
          /\ c.pc = "AwaitOpera" =>
               /\ n.thisIsForOwn
               /\ TextLen(n) = TextLen(c) + 1 - (IF OperaMarked(c.ua) THEN 5 ELSE 0)
    IN  /\ n.thisIsForOwn => n.pc # "AwaitOpera"
        /\ d > 1 => under(stack[d - 1])

(* C18: every invocation of parse terminates, for every input: the chain   *)
(* of nested parses is bounded as NestedBounded says, no invocation is     *)
(* left without a step to take, and the stack of invocations empties.      *)
Terminates == []NestedBounded /\ [](stack # <<>> => CanStep) /\ ParseEnds

(* The Opera rule has started a nested parse on a string that is longer    *)
(* than its caller's, and that parse is about to return.                   *)
TerminatesWitness ==
  /\ Len(stack) = 2 /\ Top.pc = "Record" /\ Caller.pc = "AwaitOpera"
  /\ Caller.ua = <<"MSIE 9.0", "like iPhone OS", "Linux">>
  /\ TextLen(Top) = TextLen(Caller) + 1

(* The stages of an invocation in the order of the source text, and the    *)
(* position of a stage in it.                                              *)
Stages ==
  <<"Match", "Product", "Mode", "AwaitIEMobile", "Version", "Layout", "WindowsPhone",
    "Features", "Prerelease", "Mobile", "Opera", "AwaitOpera", "WebKit", "Desktop",
    "OSFix", "Describe", "OSObject", "Record", "Threw">>
StageRank(pc) == CHOOSE k \in DOMAIN Stages : Stages[k] = pc

(* The invocations that a step leaves on the stack. *)
Staying == DOMAIN stack \cap DOMAIN stack'

(* Whenever a step changes an invocation, the invocation moves to a later  *)
(* stage.                                                                  *)
OnlyForward ==
  \A d \in Staying :
    stack'[d] # stack[d] => StageRank(stack'[d].pc) > StageRank(stack[d].pc)

(* C19: within one invocation the correction rules run as a single forward *)
(* pass: every stage is entered at most once, and what a rule changes      *)
(* never sends the invocation back to an earlier rule.                     *)
ForwardPass == [][OnlyForward]_vars

(* The Opera rule has replaced the name IE, which rules before it tested,  *)
(* and the invocation goes on with the rules after it.                     *)
ForwardPassWitness ==
  /\ Len(stack) = 1 /\ Top.pc = "WebKit"
  /\ Top.name = "Opera" /\ getName(Top.ua) = "IE"

(* The version resolver has run in invocation f. *)
VersionResolved(f) == StageRank(f.pc) > StageRank("Version")

(* Name, product and OS of an invocation. *)
Corrected(f) == <<f.name, f.product, f.os>>

(* The OS local holds a Windows platform token as it stands in the string. *)
RawWindows(f) == StartsWith(Str(f.os), "Windows NT")

(* C20 as stated: the matchers, then the version resolver, then the        *)
(* correction rules, then OS cleanup: no rule changes name, product or os  *)
(* before the version was resolved, and right after the matchers the os is *)
(* still the text that was matched.                                        *)
StagesAsStated ==
  /\ [][\A d \in Staying :
          stack[d].pc # "Match" /\ Corrected(stack'[d]) # Corrected(stack[d]) =>
            VersionResolved(stack[d])]_vars
  /\ [](\A d \in DOMAIN stack :
          stack[d].pc = "Product" /\ stack[d].os # NULL => Has(stack[d].ua, stack[d].os))

(* C20: the stages as the code runs them.  The OS matcher cleans up what   *)
(* it matched, so right after the matchers a Windows platform token reads  *)
(* as a Windows name; the rules of the stages before the version resolver  *)
(* leave the version alone; the version resolver leaves name, product and  *)
(* os alone and hands over to the later rules.                             *)
StagesInOrder ==
  /\ [](\A d \in DOMAIN stack : stack[d].pc = "Product" => ~RawWindows(stack[d]))
  /\ [][\A d \in Staying :
          /\ ~VersionResolved(stack'[d]) => stack'[d].version = stack[d].version
          /\ stack[d].pc = "Version" /\ stack'[d] # stack[d] =>
               Corrected(stack'[d]) = Corrected(stack[d]) /\ VersionResolved(stack'[d])]_vars

(* The version resolver is about to run, on the name and the OS that the   *)
(* iOS rule has set after the matchers found neither.                      *)
StagesInOrderWitness ==
  /\ stack # <<>> /\ Top.pc = "Version" /\ ~Truthy(Top.version)
  /\ Top.name = "Safari" /\ getName(Top.ua) = NULL
  /\ Top.os # getOS(Top.ua)

(* The products a product matcher can resolve to, and null. *)
AnyProduct == {NULL} \cup {ProductTable[k].label : k \in DOMAIN ProductTable}

(* The manufacturers that list a product, by its text or its leading words. *)
Listing(p) ==
  {k \in DOMAIN ManufacturerTable :
     \/ Str(p) \in ManufacturerTable[k].products
     \/ LeadingWords(Str(p)) \in ManufacturerTable[k].products}

Block(old, new) ==
  \E k \in 0..(Len(new) - Len(old)) : SubSeq(new, k + 1, k + Len(old)) = old

(* Every rule before the grouping adds its notes at either end of the      *)
(* notes collected so far, the grouping takes them all, and no rule after  *)
(* it changes the group.                                                   *)
NotesKept ==
  \A d \in Staying :
    LET f == stack[d]
        g == stack'[d]
    IN  /\ StageRank(g.pc) <= StageRank("Describe") => Block(f.description, g.description)
        /\ f.pc = "Describe" /\ g.pc = "OSObject" => Block(f.description, g.notes)
        /\ StageRank(f.pc) > StageRank("Describe") => g.notes = f.notes

(* The notes that the rules of the pass collected: those in the group and  *)
(* the note '32-bit'.                                                      *)
Collected(p) == {p.notes[i] : i \in DOMAIN p.notes} \cup (IF p.bitNote THEN {"32-bit"} ELSE {})

(* The note is one of the group, and the group stands in the description. *)
InGroup(p, note) ==
  /\ \E i \in DOMAIN p.notes : p.notes[i] = note
  /\ Contains(p.description, NoteGroup(p))

(* C22 as stated: every note that a rule collected, '32-bit' included,     *)
(* stands in the description inside the one parenthesized group.           *)
AllNotesGrouped == Returned => \A note \in Collected(Platform) : InGroup(Platform, note)

(* In a returned record the notes collected before the grouping stand in   *)
(* the description as one parenthesized group, joined by '; '; the note    *)
(* '32-bit' stands outside the group, right before it.                     *)
GroupInDescription ==
  Returned =>
    LET p == Platform
    IN  /\ \A i \in DOMAIN p.notes : InGroup(p, p.notes[i])
        /\ p.bitNote =>
             /\ \A i \in DOMAIN p.notes : p.notes[i] # "32-bit"
             /\ Contains(p.description,
                         IF p.notes = <<>> THEN "32-bit" ELSE "32-bit " \o NoteGroup(p))

(* C22: every note collected by a rule that runs before the grouping       *)
(* appears in the description inside the single parenthesized group,       *)
(* joined with the other notes by '; '; the note '32-bit', added after     *)
(* the group is formed, appears outside the parentheses.                   *)
NotesGrouped == [][NotesKept]_vars /\ [](GroupInDescription)

(* Two notes in the group, and the note '32-bit' before it. *)
NotesGroupedWitness ==
  /\ Returned /\ Platform.bitNote
  /\ Platform.notes = <<"identifying as IE 9.0", "like Safari 7.x">>
  /\ Platform.description = "Opera 9.80 32-bit (identifying as IE 9.0; like Safari 7.x)"

(* ---------------------------------------------------------------------- *)
(* C23: the WebKit build ladders                                           *)
(* ---------------------------------------------------------------------- *)

(* The thresholds of a ladder rise from each rung to the next. *)
Rising(ladder) == \A k \in 1..(Len(ladder) - 1) : ladder[k][1] < ladder[k + 1][1]

(* The bucket of a build: its rung, the one past the last for the final    *)
(* else.                                                                   *)
Bucket(ladder, build) ==
  IF rung(ladder, build) = 0 THEN Len(ladder) + 1 ELSE rung(ladder, build)

(* Build numbers on both sides of every threshold of both ladders, in      *)
(* hundredths.                                                             *)
Builds ==
  UNION {UNION {{ladder[k][1] - 1, ladder[k][1]} : k \in 1..Len(ladder)} :
           ladder \in {SafariLadder, ChromeLadder}}
  \cup {0, 53205, 53250, 53403, 53430, 60510, 99999}

(* The notes "like Safari n" or "like Chrome n" that bucket k of a ladder  *)
(* reads as: a number n reads n.x, a string reads as written, with a "+"   *)
(* unless it has one.  The final else of the Chrome ladder reads 27 or 28. *)
BucketNotes(ladder, k) ==
  LET safari == ladder = SafariLadder
      strings == IF safari THEN {5, 14} ELSE {13, 20, 25}
      labels == IF k <= Len(ladder) THEN {ladder[k][2]}
                ELSE IF safari THEN {"12"} ELSE {"27", "28"}
      read(label) == IF k \notin strings THEN label \o ".x"
                     ELSE IF Contains(label, "+") THEN label ELSE label \o "+"
  IN  {(IF safari THEN "like Safari " ELSE "like Chrome ") \o read(label) : label \in labels}

(* The build number the WebKit rule reads in a string: single-digit minor  *)
(* zero-padded.                                                            *)
NormalizedBuild(ua) ==
  LET w == Capture(ua, "AppleWebKit/", TRUE, DigitDot, TRUE, FALSE)
      minor == Len(w) >= 2 /\ Ch(w, Len(w) - 1) = "." /\ Ch(w, Len(w)) \in Digits
  IN  IF w = NULL THEN NaN
      ELSE parseFloat(IF minor THEN Upto(w, Len(w) - 1) \o "0" \o Ch(w, Len(w)) ELSE w)

(* The WebKit rule has just put the note of bucket k of a ladder. *)
Laddered(ladder, k) ==
  /\ Running("WebKit") /\ Len(stack') = Len(stack)
  /\ stack'[Len(stack')].pc = "Desktop"
  /\ Len(stack'[Len(stack')].layout) >= 2
  /\ stack'[Len(stack')].layout[2] \in BucketNotes(ladder, k)

(* Bucket k is not before the bucket of any build smaller than b, nor      *)
(* after that of any larger one.                                           *)
InOrder(ladder, k, b) ==
  /\ k = Bucket(ladder, b)
  /\ \A a \in Builds :
       /\ a <= b => Bucket(ladder, a) <= k
       /\ a >= b => Bucket(ladder, a) >= k

(* The bucket the WebKit rule puts is in order with the build it read. *)
BucketsInOrder ==
  Running("WebKit") =>
    \A ladder \in {SafariLadder, ChromeLadder} : \A k \in 1..(Len(ladder) + 1) :
      Laddered(ladder, k) /\ NormalizedBuild(Top.ua) # NaN =>
        InOrder(ladder, k, NormalizedBuild(Top.ua))

(* C23: both WebKit build ladders are monotonic: the thresholds are        *)
(* strictly increasing, and of two normalized build numbers the smaller    *)
(* is never given a later bucket than the larger; the bucket a parse puts  *)
(* in the layout note is the one of the build it read.                     *)
LaddersMonotonic ==
  /\ Rising(SafariLadder) /\ Rising(ChromeLadder)
  /\ \A ladder \in {SafariLadder, ChromeLadder} : \A a, b \in Builds :
       a <= b => Bucket(ladder, a) <= Bucket(ladder, b)
  /\ [][BucketsInOrder]_vars

(* A parse of the host's own string "AppleWebKit/534.3" in a host that is  *)
(* like Chrome has read the build as 534.03 and put bucket 6.              *)
LaddersMonotonicWitness ==
  /\ stack # <<>> /\ Top.pc = "Desktop"
  /\ Top.ua = <<"AppleWebKit/534.3">>
  /\ NormalizedBuild(Top.ua) = 53403
  /\ Top.layout = <<"WebKit", "like Chrome 6.x">>
  /\ Bucket(ChromeLadder, 53403) = 6 /\ Bucket(ChromeLadder, 53430) = 12

(* ---------------------------------------------------------------------- *)
(* C24: the prerelease rule                                                *)
(* ---------------------------------------------------------------------- *)

(* The prerelease rule fires in this step on the marker m. *)
PrereleaseFires(m) ==
  /\ Running("Prerelease") /\ Truthy(Top.version)
  /\ m = PrereleaseData(Top) /\ m # NULL
  /\ Len(stack') = Len(stack) /\ stack'[Len(stack')].pc = "Mobile"

(* The string v without the ending e, if it has it. *)
Minus(v, e) ==
  IF Len(v) >= Len(e) /\ SubSeq(v, Len(v) - Len(e) + 1, Len(v)) = e
  THEN SubSeq(v, 1, Len(v) - Len(e)) ELSE v

(* The version without the marker m, or the marker and a "+", at its end. *)
Unmarked(v, m) == IF Minus(v, m \o "+") # v THEN Minus(v, m \o "+") ELSE Minus(v, m)

(* The first run of digits in the marker m, "" if it has none. *)
Increment(m) ==
  LET first == Least({i \in 1..Len(m) : Ch(m, i) \in Digits})
  IN  IF first = 0 THEN "" ELSE SubSeq(m, first, first + RunLen(m, first, Digits) - 1)

(* The sign of a phase: ASCII when a Java host is detected. *)
Glyph(f, phase) ==
  IF f.java THEN (IF phase = "beta" THEN "b" ELSE "a")
  ELSE (IF phase = "beta" THEN "{beta}" ELSE "{alpha}")

(* The phase of a marker: beta if it holds the letter b. *)
PhaseOf(m) == IF \E i \in 1..Len(m) : Ch(m, i) \in {"b", "B"} THEN "beta" ELSE "alpha"

(* C24 as stated: when the prerelease rule fires, prerelease is beta if    *)
(* the marker holds the letter b and alpha otherwise, and the version is   *)
(* the version without the marker at its end, then one glyph, then the     *)
(* digits of the marker if any.                                            *)
PrereleaseDigitsOnly ==
  [][Running("Prerelease") => \A m \in {PrereleaseData(Top)} : PrereleaseFires(m) =>
       /\ stack'[Len(stack')].prerelease = PhaseOf(m)
       /\ stack'[Len(stack')].version =
            Unmarked(Top.version, m) \o Glyph(Top, PhaseOf(m)) \o Increment(m)]_vars

(* The "+" at the end of a marker that has digits. *)
PlusOf(m) == IF Increment(m) # "" /\ Ch(m, Len(m)) = "+" THEN "+" ELSE ""

(* C24: when the prerelease rule fires, prerelease is beta if the marker   *)
(* holds the letter b and alpha otherwise, and the version is the version  *)
(* without the marker at its end, then one glyph, then the digits of the   *)
(* marker if any and the "+" that follows them if any.                      *)
PrereleaseStaged ==
  [][Running("Prerelease") => \A m \in {PrereleaseData(Top)} : PrereleaseFires(m) =>
       /\ stack'[Len(stack')].prerelease = PhaseOf(m)
       /\ stack'[Len(stack')].version =
            Unmarked(Top.version, m) \o Glyph(Top, PhaseOf(m)) \o Increment(m) \o PlusOf(m)]_vars

(* "Firefox/4.0b2+" has been staged as a beta under a host without Java:   *)
(* the version reads 4.0, the beta sign, 2+.                               *)
PrereleaseStagedWitness ==
  /\ stack # <<>> /\ Top.pc = "Mobile"
  /\ Top.ua = <<"Firefox/4.0b2+">> /\ ~Top.java
  /\ Top.prerelease = "beta" /\ Top.version = "4.0{beta}2+"

(* ---------------------------------------------------------------------- *)
(* C25: 64-bit tokens                                                      *)
(* ---------------------------------------------------------------------- *)

(* The 64-bit tokens, in lower case. *)
Tokens64 == {"amd64", "ia64", "win64", "wow64", "x86_64", "x64"}

(* The invocations that have their platform object ready. *)
Ready == {d \in DOMAIN stack : stack[d].pc = "Record"}

(* The token t occurs in the architecture source of the invocation f: the  *)
(* identification string, or the architecture a capability hint reported.  *)
Occurs(t, f) == IF f.archIsUa THEN WordCI(f.ua, t) ELSE HasWord(Lower(Str(f.arch)), t)

(* The first 64-bit token of the architecture source, as written there. *)
Token64(f) ==
  IF f.archIsUa THEN Exec([i \in DOMAIN f.ua |-> ArchToken(f.ua[i])]) ELSE ArchToken(Str(f.arch))

(* C25 as stated: whenever a 64-bit token occurs in the architecture       *)
(* source, the platform object has os.architecture = 64 and an os.family   *)
(* without that token.                                                     *)
Token64Always ==
  \A d \in Ready : \A t \in Tokens64 :
    Occurs(t, stack[d]) =>
      /\ PlatformOf(stack[d]).osArchitecture = 64
      /\ ~Contains(Lower(Str(PlatformOf(stack[d]).osFamily)), t)

(* The string b without the first occurrence of t and the spaces before it. *)
Dropped(b, t) ==
  LET j == Least({i \in 1..Len(b) : At(b, i, t)})
      spaces == IF j = 0 THEN 0 ELSE (j - 1) - Greatest({i \in 0..(j - 1) : i = 0 \/ Ch(b, i) # " "})
  IN  IF j = 0 THEN b ELSE SubSeq(b, 1, j - spaces - 1) \o SubSeq(b, j + Len(t), Len(b))

(* The family of the OS string: the string without its version. *)
FamilyOf(f) ==
  IF Truthy(f.osVersion) /\ ~f.isSpecialCasedOS THEN Minus(f.os, " " \o f.osVersion) ELSE f.os

(* C25: when a 64-bit token occurs in the architecture source, the source  *)
(* holds no i686 and the OS family is resolved, the platform object has    *)
(* os.architecture = 64 and os.family is the family without the first      *)
(* occurrence of the first such token, as the source writes it, and the    *)
(* spaces before it.  With an unresolved family os.architecture is null;   *)
(* with i686 in the source the family is left as it is.                    *)
Token64OfResolvedOS ==
  \A d \in Ready :
    LET f == stack[d]
    IN  (\E t \in Tokens64 : Occurs(t, f)) =>
          /\ Token64(f) # NULL /\ Occurs(Lower(Token64(f)), f)
          /\ ~Truthy(f.os) => PlatformOf(f).osArchitecture = 0 /\ PlatformOf(f).osFamily = NULL
          /\ Truthy(f.os) /\ ~Occurs("i686", f) =>
               /\ PlatformOf(f).osArchitecture = 64
               /\ PlatformOf(f).osFamily = Dropped(FamilyOf(f), Token64(f))
          /\ Truthy(f.os) /\ Occurs("i686", f) => PlatformOf(f).osFamily = FamilyOf(f)

(* "Linux x86_64" resolves to the family Linux on 64 bits. *)
Token64Witness ==
  /\ stack # <<>> /\ Top.pc = "Record" /\ Top.ua = <<"Linux x86_64">>
  /\ Token64(Top) = "x86_64" /\ Top.os = "Linux x86_64"
  /\ PlatformOf(Top).osFamily = "Linux" /\ PlatformOf(Top).osArchitecture = 64

(* ---------------------------------------------------------------------- *)
(* C26: the place of a mode note                                           *)
(* ---------------------------------------------------------------------- *)

(* The notes of the desktop-mode rules and of the IE compatibility mode. *)
IsDesktopNote(note) == note = "desktop mode"
IsCompatNote(note) == StartsWith(note, "IE ") /\ Contains(note, " mode")

(* The positions in the notes of g of the notes that f did not have, for   *)
(* an invocation f that a step takes to g before the notes are grouped.    *)
NewNotes(f, g) ==
  IF StageRank(g.pc) > StageRank("Describe") THEN {}
  ELSE {i \in DOMAIN g.description :
          \A j \in DOMAIN f.description : f.description[j] # g.description[i]}

(* The note at position i of g stands before every note that f had. *)
BeforeEarlier(f, g, i) == \A j \in DOMAIN g.description \ NewNotes(f, g) : i < j

(* The note at position i of g stands after every note that f had. *)
AfterEarlier(f, g, i) == \A j \in DOMAIN g.description \ NewNotes(f, g) : i > j

(* A step puts every mode note before the notes of the rules that ran      *)
(* earlier.                                                                *)
ModeNotePrepended ==
  \A d \in Staying : \A i \in NewNotes(stack[d], stack'[d]) :
    IsDesktopNote(stack'[d].description[i]) \/ IsCompatNote(stack'[d].description[i]) =>
      BeforeEarlier(stack[d], stack'[d], i)

ModeNotePlaced ==
  \A d \in Staying : \A i \in NewNotes(stack[d], stack'[d]) :
    /\ IsDesktopNote(stack'[d].description[i]) => BeforeEarlier(stack[d], stack'[d], i)
    /\ IsCompatNote(stack'[d].description[i]) => AfterEarlier(stack[d], stack'[d], i)

FirefoxMobileFires(f) ==
  \/ f.name = "Fennec"
  \/ f.name = "Firefox" /\ \E w \in {"Android", "Firefox OS", "KaiOS"} : HasWord(Str(f.os), w)
MaxthonFires(f) == f.name = "Maxthon" /\ Truthy(f.version)
XboxFires(f) == HasWord(Lower(Str(f.product)), "xbox")

(* The condition of the mobile-suffix rule on the name n: the name is      *)
(* Chrome, IE or Opera, or it is resolved without a product and holds      *)
(* neither "Browser" nor "Mobi"; and the OS is Windows CE or the string    *)
(* holds "Mobi" in any case.                                               *)
SuffixDue(f, n) ==
  /\ \/ n \in {"Chrome", "IE", "Opera"}
     \/ Truthy(n) /\ ~Truthy(f.product) /\ ~Contains(n, "Browser") /\ ~Contains(n, "Mobi")
  /\ \/ f.os = "Windows CE"
     \/ Contains(Lower(Text(f.ua, f.tail)), "mobi")

(* The invocation d runs the rules of lines 1671-1711 in this step. *)
MobileStep(d) == d = Len(stack) /\ d \in Staying /\ stack[d].pc = "Mobile"

(* The name after the Firefox Mobile rule. *)
MobileNamed(f) == IF FirefoxMobileFires(f) THEN "Firefox Mobile" ELSE f.name

(* C27 as stated: the mobile-suffix rule appends " Mobile" whenever its    *)
(* condition holds, whether or not the Firefox Mobile, Maxthon or Xbox     *)
(* rule fired.                                                             *)
MobileSuffixIndependent ==
  [][\A d \in DOMAIN stack : MobileStep(d) =>
       stack'[d].name = IF SuffixDue(stack[d], MobileNamed(stack[d]))
                        THEN MobileNamed(stack[d]) \o " Mobile"
                        ELSE MobileNamed(stack[d])]_vars

(* C27: the mobile-suffix rule appends " Mobile" whenever its condition    *)
(* holds and none of the Firefox Mobile, Maxthon and Xbox rules fired;     *)
(* when one of them fired the name gets no suffix.                         *)
MobileSuffixInChain ==
  [][\A d \in DOMAIN stack : MobileStep(d) =>
       stack'[d].name =
         IF FirefoxMobileFires(stack[d]) THEN "Firefox Mobile"
         ELSE IF MaxthonFires(stack[d]) \/ XboxFires(stack[d]) THEN stack[d].name
         ELSE IF SuffixDue(stack[d], stack[d].name) THEN stack[d].name \o " Mobile"
         ELSE stack[d].name]_vars

(* "Maxthon; Mobile" got the suffix; with a version, "Maxthon/3.0; Mobile" *)
(* got none.                                                               *)
MobileSuffixWitness ==
  /\ stack # <<>> /\ Top.pc = "WebKit" /\ Top.ua = <<"Maxthon", "Mobile">>
  /\ Top.name = "Maxthon Mobile" /\ ~MaxthonFires(Top)

(* ---------------------------------------------------------------------- *)
(* C28: the version of SRWare Iron                                         *)
(* ---------------------------------------------------------------------- *)

(* The version that the token "Chrome/<version>" of the string gives, NULL *)
(* when the string has none: what the version pattern reads for the one    *)
(* word Chrome.                                                            *)
ChromeTokenVersion(f) ==
  Exec([i \in DOMAIN f.ua |->
          VersionIn(f.ua[i], P("", <<"Chrome">>), i = Len(f.ua) /\ f.tail = "")])

(* The SRWare Iron rule runs in this step of the innermost invocation. *)
IronRuleFires ==
  /\ Running("Desktop") /\ Len(stack') = Len(stack)
  /\ HasWord(Str(Top.name), "SRWare Iron") /\ ~Truthy(Top.version)
  /\ stack'[Len(stack')].name = Top.name

(* C28: when name is SRWare Iron and the version resolver found no         *)
(* version, version is taken from the token "Chrome/<version>" of the      *)
(* string and from no other token, and stays null when there is none.      *)
IronVersionFromChromeToken ==
  [][IronRuleFires => stack'[Len(stack')].version = ChromeTokenVersion(Top)]_vars

(* ---------------------------------------------------------------------- *)
(* C29: the ambient host and an explicit string                            *)
(* ---------------------------------------------------------------------- *)

(* The locals that the rules of the pass resolve. *)
Resolved(f) == <<f.name, f.version, f.layout, f.os, f.product, f.manufacturer, f.description>>

(* The invocation f in a host without ambient objects (the sign of a       *)
(* prerelease apart).                                                      *)
HostAbsent(f) == [f EXCEPT !.opera = FALSE, !.operaClass = NULL, !.context = EmptyContext]

(* A nested parse returns to the Opera rule of an invocation that parses   *)
(* an explicit string which is not the ambient identification string.       *)
OperaRuleOfPlainString ==
  /\ PlainString
  /\ Running("Record") /\ Len(stack) > 1 /\ Caller.pc = "AwaitOpera"
  /\ ~Caller.useFeatures
  /\ Len(stack') = Len(stack) - 1

(* C29: for an explicit identification string that differs from the        *)
(* ambient one, the ambient objects do not influence name, version,        *)
(* layout, os, product, manufacturer or description: every rule resolves   *)
(* them as it does in a host without ambient objects.  Stated for the rule *)
(* that reads operaClass, the Opera rule.                                  *)
AmbientObjectsUnread ==
  [][OperaRuleOfPlainString =>
       Resolved(stack'[Len(stack')]) =
         Resolved(OperaReturn(HostAbsent(Caller), PlatformOf(Top)))]_vars

(* ---------------------------------------------------------------------- *)
(* C30: prerelease and version in a returned record                        *)
(* ---------------------------------------------------------------------- *)

(* The signs of the prerelease phase p, in a host with Java and without. *)
Glyphs(p) == IF p = "beta" THEN {"b", "{beta}"} ELSE {"a", "{alpha}"}

(* C30: in every record returned by parse, a prerelease that is not null   *)
(* comes with a version that is not null and carries the sign of the       *)
(* prerelease: no rule after the prerelease rule clears the version and    *)
(* leaves the prerelease.                                                  *)
PrereleaseHasVersion ==
  Returned /\ Platform.prerelease # NULL =>
    /\ Truthy(Platform.version)
    /\ \E glyph \in Glyphs(Platform.prerelease) : Contains(Platform.version, glyph)
====
